---------------------------- MODULE Spec2Model ----------------------------
(***************************************************************************)
(* A model of the brightness crate: the Linux backend (sysfs attributes,   *)
(* logind SetBrightness call, fallback write) and the Windows backend      *)
(* (enumeration and correlation of monitor handles, IOCTL and DDC/CI       *)
(* brightness control), in their blocking and async variants.              *)
(***************************************************************************)
EXTENDS Integers, Sequences, FiniteSets, TLC

(***************************************************************************)
(* Machine integers.  u32 and u64 values do not fit TLC's integers, so a   *)
(* machine integer is a little-endian sequence of base-256 limbs without   *)
(* leading zero limbs; <<>> is zero.                                       *)
(***************************************************************************)
Base == 16 * 16

RECURSIVE Norm(_)
Norm(a) ==
    IF a = <<>> THEN <<>>
    ELSE IF a[Len(a)] = 0 THEN Norm(SubSeq(a, 1, Len(a) - 1))
    ELSE a

RECURSIVE NatToBig(_)
NatToBig(n) == IF n = 0 THEN <<>> ELSE <<n % Base>> \o NatToBig(n \div Base)

RECURSIVE BigToNat(_)
BigToNat(a) == IF a = <<>> THEN 0 ELSE a[1] + Base * BigToNat(Tail(a))

Limb0(a) == IF a = <<>> THEN 0 ELSE a[1]
Rest(a) == IF a = <<>> THEN <<>> ELSE Tail(a)

RECURSIVE AddCarry(_, _, _)
AddCarry(a, b, c) ==
    IF a = <<>> /\ b = <<>> THEN (IF c = 0 THEN <<>> ELSE <<c>>)
    ELSE LET s == Limb0(a) + Limb0(b) + c
         IN  <<s % Base>> \o AddCarry(Rest(a), Rest(b), s \div Base)

BigAdd(a, b) == AddCarry(a, b, 0)

RECURSIVE SubBorrow(_, _, _)
SubBorrow(a, b, c) ==
    IF a = <<>> THEN <<>>
    ELSE LET s == a[1] - Limb0(b) - c
         IN  IF s < 0 THEN <<s + Base>> \o SubBorrow(Tail(a), Rest(b), 1)
             ELSE <<s>> \o SubBorrow(Tail(a), Rest(b), 0)

\* a - b for a >= b
BigSub(a, b) == Norm(SubBorrow(a, b, 0))

RECURSIVE CmpFrom(_, _, _)
CmpFrom(a, b, i) ==
    IF i = 0 THEN 0
    ELSE IF a[i] < b[i] THEN -1
    ELSE IF a[i] > b[i] THEN 1
    ELSE CmpFrom(a, b, i - 1)

\* -1, 0 or 1 as a < b, a = b, a > b
BigCmp(a, b) ==
    IF Len(a) < Len(b) THEN -1
    ELSE IF Len(a) > Len(b) THEN 1
    ELSE CmpFrom(a, b, Len(a))

BigLe(a, b) == BigCmp(a, b) <= 0
BigLt(a, b) == BigCmp(a, b) < 0

RECURSIVE MulCarry(_, _, _)
MulCarry(a, k, c) ==
    IF a = <<>> THEN NatToBig(c)
    ELSE LET s == a[1] * k + c
         IN  <<s % Base>> \o MulCarry(Tail(a), k, s \div Base)

\* a * k for a small k (k < 2^22)
BigMulSmall(a, k) == Norm(MulCarry(a, k, 0))

RECURSIVE DivSmallRec(_, _)
DivSmallRec(a, k) ==
    IF a = <<>> THEN [q |-> <<>>, r |-> 0]
    ELSE LET hi == DivSmallRec(Tail(a), k)
             cur == hi.r * Base + a[1]
         IN  [q |-> <<cur \div k>> \o hi.q, r |-> cur % k]

\* floor(a / k) and a mod k for a small k (0 < k < 2^22)
BigDivSmall(a, k) == Norm(DivSmallRec(a, k).q)
BigModSmall(a, k) == DivSmallRec(a, k).r

RECURSIVE Pow2(_)
Pow2(n) == IF n = 0 THEN 1 ELSE 2 * Pow2(n - 1)

\* one quotient limb of cur / b, most significant bit first
RECURSIVE DivLimb(_, _, _, _)
DivLimb(cur, b, bit, d) ==
    IF bit < 0 THEN [d |-> d, r |-> cur]
    ELSE LET t == BigMulSmall(b, Pow2(bit))
         IN  IF BigLe(t, cur)
             THEN DivLimb(BigSub(cur, t), b, bit - 1, d + Pow2(bit))
             ELSE DivLimb(cur, b, bit - 1, d)

\* one more limb of a long division: hi is the quotient and remainder of
\* the limbs above, limb the next limb of the dividend
DivModStep(hi, limb, b) ==
    IF hi.r = <<>> /\ limb = 0 THEN [q |-> <<0>> \o hi.q, r |-> <<>>]
    ELSE LET dl == DivLimb(Norm(<<limb>> \o hi.r), b, 7, 0)
         IN  [q |-> <<dl.d>> \o hi.q, r |-> dl.r]

RECURSIVE DivModRec(_, _)
DivModRec(a, b) ==
    IF a = <<>> THEN [q |-> <<>>, r |-> <<>>]
    ELSE DivModStep(DivModRec(Tail(a), b), a[1], b)

\* floor(a / b) for b # 0
BigDiv(a, b) == Norm(DivModRec(a, b).q)

\* a mod 2^(8 * limbs): the wrap-around of a fixed-width machine integer
Wrap(a, limbs) == Norm(SubSeq(a, 1, IF Len(a) < limbs THEN Len(a) ELSE limbs))

U32Limbs == 2 + 2
U32Max == <<255, 255, 255, 255>>
FitsU32(a) == Len(a) <= U32Limbs


Min(a, b) == IF BigLe(a, b) THEN a ELSE b

\* u32 * u32 in u32 arithmetic: the wrapped product and whether it overflowed
U32Mul(a, b) ==
    LET product == BigMulSmall(a, BigToNat(b))
    IN  [value |-> Wrap(product, U32Limbs), overflow |-> ~FitsU32(product)]

U64Limbs == 2 * U32Limbs
\* u64 * u64 in u64 arithmetic, for a factor a that came from a u32 <= 100
U64Mul(a, b) ==
    LET product == BigMulSmall(b, BigToNat(a))
    IN  [value |-> Wrap(product, U64Limbs), overflow |-> Len(product) > U64Limbs]

(***************************************************************************)
(* f64 arithmetic (IEEE 754 binary64, round to nearest, ties to even) on   *)
(* the values the backends compute with: zero, positive finite numbers     *)
(* m * 2^e with m below 2^53, +infinity and NaN.                           *)
(***************************************************************************)
BitsOfLimb(n) == Cardinality({i \in 0..7 : Pow2(i) <= n})
BitLen(a) == IF a = <<>> THEN 0 ELSE 8 * (Len(a) - 1) + BitsOfLimb(a[Len(a)])

\* a * 2^n
ShiftLeft(a, n) ==
    IF a = <<>> THEN <<>>
    ELSE [i \in 1..(n \div 8) |-> 0] \o BigMulSmall(a, Pow2(n % 8))

\* floor(a / 2^n)
ShiftRight(a, n) ==
    IF n \div 8 >= Len(a) THEN <<>>
    ELSE BigDivSmall(SubSeq(a, (n \div 8) + 1, Len(a)), Pow2(n % 8))

\* a mod 2^n
LowBits(a, n) == BigSub(a, ShiftLeft(ShiftRight(a, n), n))

IsOdd(a) == a # <<>> /\ a[1] % 2 = 1

RECURSIVE BigMul(_, _)
BigMul(a, b) ==
    IF b = <<>> \/ a = <<>> THEN <<>>
    ELSE BigAdd(BigMulSmall(a, b[1]), Norm(<<0>> \o BigMul(a, Tail(b))))

MantissaBits == 53

F64(m, e) == [class |-> "finite", m |-> m, e |-> e]
F64Zero == F64(<<>>, 0)
F64Infinity == [class |-> "infinity"]
F64NaN == [class |-> "nan"]

\* the f64 nearest to (n + fraction) * 2^e, where sticky says 0 < fraction < 1
\* (n then has more than 53 bits) and otherwise fraction = 0
RoundToF64(n, sticky, e) ==
    LET s == BitLen(n) - MantissaBits
        m == ShiftRight(n, s)
        cmp == BigCmp(LowBits(n, s), ShiftLeft(<<1>>, s - 1))
        up == cmp > 0 \/ (cmp = 0 /\ (sticky \/ IsOdd(m)))
    IN  IF s <= 0 THEN F64(n, e)
        ELSE F64(IF up THEN BigAdd(m, <<1>>) ELSE m, e + s)

\* u32 as f64
F64FromU32(a) == F64(a, 0)

\* x / y
F64Div(x, y) ==
    LET k == IF BitLen(x.m) > BitLen(y.m) THEN MantissaBits + 1
             ELSE MantissaBits + 1 + BitLen(y.m) - BitLen(x.m)
        dm == DivModRec(ShiftLeft(x.m, k), y.m)
    IN  IF x.class = "nan" \/ y.class = "nan" THEN F64NaN
        ELSE IF y.m = <<>> THEN (IF x.m = <<>> THEN F64NaN ELSE F64Infinity)
        ELSE IF x.m = <<>> THEN F64Zero
        ELSE RoundToF64(Norm(dm.q), dm.r # <<>>, x.e - y.e - k)

\* x * y
F64Mul(x, y) ==
    IF x.class = "nan" \/ y.class = "nan" THEN F64NaN
    ELSE IF x.class = "infinity" \/ y.class = "infinity"
    THEN (IF (x.class = "finite" /\ x.m = <<>>) \/ (y.class = "finite" /\ y.m = <<>>)
          THEN F64NaN ELSE F64Infinity)
    ELSE IF x.m = <<>> \/ y.m = <<>> THEN F64Zero
    ELSE RoundToF64(BigMul(x.m, y.m), FALSE, x.e + y.e)

\* f64::round: to the nearest integer, halves away from zero
F64Round(x) ==
    IF x.class # "finite" \/ x.e >= 0 THEN x
    ELSE F64(ShiftRight(BigAdd(x.m, ShiftLeft(<<1>>, (0 - x.e) - 1)), 0 - x.e), 0)

\* `as u32` of a non-negative f64 with an integer value: saturating, NaN is 0
F64AsU32(x) ==
    IF x.class = "nan" THEN <<>>
    ELSE IF x.class = "infinity" THEN U32Max
    ELSE LET n == ShiftLeft(x.m, x.e)
         IN  IF FitsU32(n) THEN n ELSE U32Max

(***************************************************************************)
(* Text: a string is a sequence of one-character strings.                  *)
(***************************************************************************)
Digits == <<"0", "1", "2", "3", "4", "5", "6", "7", "8", "9">>
IsDigit(c) == \E i \in 1..10 : Digits[i] = c
DigitValue(c) == (CHOOSE i \in 1..10 : Digits[i] = c) - 1
Whitespace == {" ", "\n", "\t"}

RECURSIVE trim_start(_)
trim_start(s) ==
    IF s # <<>> /\ s[1] \in Whitespace THEN trim_start(Tail(s)) ELSE s

RECURSIVE trim_end(_)
trim_end(s) ==
    IF s # <<>> /\ s[Len(s)] \in Whitespace
    THEN trim_end(SubSeq(s, 1, Len(s) - 1)) ELSE s

\* str::trim
trim(s) == trim_end(trim_start(s))

RECURSIVE DecimalValue(_, _)
DecimalValue(s, acc) ==
    IF s = <<>> THEN acc
    ELSE DecimalValue(Tail(s),
                      BigAdd(BigMulSmall(acc, 10), NatToBig(DigitValue(s[1]))))

Ok(v) == [tag |-> "Ok", value |-> v]
Err(e) == [tag |-> "Err", error |-> e]
Panic == [tag |-> "Panic"]

\* str::parse::<u32>: an optional '+', then one or more digits, no overflow
parse_u32(s) ==
    LET digits == IF s # <<>> /\ s[1] = "+" THEN Tail(s) ELSE s
    IN  IF digits = <<>> \/ \E i \in 1..Len(digits) : ~IsDigit(digits[i])
        THEN Err("InvalidDigit")
        ELSE LET v == DecimalValue(digits, <<>>)
             IN  IF FitsU32(v) THEN Ok(v) ELSE Err("PosOverflow")

RECURSIVE DecimalDigits(_)
DecimalDigits(v) ==
    IF v = <<>> THEN <<>>
    ELSE DecimalDigits(BigDivSmall(v, 10)) \o <<Digits[BigModSmall(v, 10) + 1]>>

\* u32::to_string
to_string(v) == IF v = <<>> THEN <<"0">> ELSE DecimalDigits(v)

(***************************************************************************)
(* Linux backend.                                                          *)
(***************************************************************************)
BACKLIGHT_DIR == "/sys/class/backlight"
USER_DBUS_NAME == "org.freedesktop.login1"
SESSION_OBJECT_PATH == "/org/freedesktop/login1/session/auto"
SESSION_INTERFACE == "org.freedesktop.login1.Session"
SET_BRIGHTNESS_METHOD == "SetBrightness"

\* Value::as_str
Value_as_str(name) ==
    IF name = "Actual" THEN "actual_brightness" ELSE "max_brightness"

\* a classification by the operation asked for: every failure below a device
\* is a failure to set
Linux_Error_from_as_setting(e) ==
    IF e.type = "ReadingBacklightDirFailed"
    THEN [kind |-> "ListingDevicesFailed", source |-> e]
    ELSE [kind |-> "SettingBrightnessFailed", device |-> e.device, source |-> e]

\* impl From<SysError> for Error (Linux)
Linux_Error_from(e) ==
    IF e.type = "ReadingBacklightDirFailed"
    THEN [kind |-> "ListingDevicesFailed", source |-> e]
    ELSE IF e.type \in {"ReadingBacklightDeviceFailed", "ParsingBacklightInfoFailed"}
    THEN [kind |-> "GettingDeviceInfoFailed", device |-> e.device, source |-> e]
    ELSE [kind |-> "SettingBrightnessFailed", device |-> e.device, source |-> e]

\* the entry of the backlight directory a path names: <<dir, device, attribute>>
FileAt(fs, path) == fs[path[2]][path[3]]

ReadEffect(path) == [op |-> "read", path |-> path]
WriteEffect(path, data) == [op |-> "write", path |-> path, data |-> data]
ConnectEffect == [op |-> "connect"]
CallEffect(destination, path, interface, method, body) ==
    [op |-> "call", destination |-> destination, path |-> path,
     interface |-> interface, method |-> method, body |-> body]

\* read_value of src/blocking/linux.rs: the result and the read it issues
read_value(fs, device, name) ==
    LET path == <<BACKLIGHT_DIR, device, Value_as_str(name)>>
        file == FileAt(fs, path)
        parsed == parse_u32(trim(file.content))
    IN  [effects |-> <<ReadEffect(path)>>,
         result |->
            IF ~file.readable
            THEN Err([type |-> "ReadingBacklightDeviceFailed",
                      device |-> device, path |-> path])
            ELSE IF parsed.tag = "Ok" THEN parsed
            ELSE Err([type |-> "ParsingBacklightInfoFailed",
                      device |-> device, path |-> path, reason |-> parsed.error])]

\* set_value of src/blocking/linux.rs: the result, the write it issues and the
\* file system after it
set_value(fs, device, value) ==
    LET path == <<BACKLIGHT_DIR, device, "brightness">>
        file == FileAt(fs, path)
    IN  [effects |-> <<WriteEffect(path, to_string(value))>>,
         result |->
            IF file.writable THEN Ok(<<>>)
            ELSE Err([type |-> "WritingBrightnessFailed",
                      device |-> device, path |-> path]),
         fs |->
            IF file.writable
            THEN [fs EXCEPT ![device]["brightness"].content = to_string(value)]
            ELSE fs]

\* BlockingDeviceImpl::get of src/blocking/linux.rs.  checks: the build has
\* overflow checks (a debug profile), so an overflowing u32 product panics;
\* without them it wraps.
BlockingDeviceImpl_get(fs, device, checks) ==
    LET max == read_value(fs, device, "Max")
        actual == read_value(fs, device, "Actual")
        product == U32Mul(actual.result.value, NatToBig(100))
    IN  IF max.result.tag # "Ok"
        THEN [result |-> Err(Linux_Error_from(max.result.error)),
              effects |-> max.effects]
        ELSE IF actual.result.tag # "Ok"
        THEN [result |-> Err(Linux_Error_from(actual.result.error)),
              effects |-> max.effects \o actual.effects]
        ELSE [effects |-> max.effects \o actual.effects,
              result |->
                 IF max.result.value = <<>> THEN Ok(<<>>)
                 ELSE IF product.overflow /\ checks THEN Panic
                 ELSE Ok(Wrap(BigDiv(product.value, max.result.value), U32Limbs))]

\* a fallback that does not look at the outcome of the write
set_response_ignoring_write(fs, device, desired_value, response) ==
    LET written == set_value(fs, device, desired_value)
    IN  IF response.tag = "Ok"
        THEN [result |-> Ok(<<>>), effects |-> <<>>, fs |-> fs]
        ELSE IF response.error.variant = "MethodError"
        THEN [result |-> Ok(<<>>), effects |-> written.effects, fs |-> written.fs]
        ELSE [result |-> Err([kind |-> "SettingBrightnessFailed",
                              device |-> device, source |-> response.error]),
              effects |-> <<>>, fs |-> fs]

\* a write that does not wait for the service to refuse
set_response_writing_always(fs, device, desired_value, response) ==
    LET written == set_value(fs, device, desired_value)
    IN  IF response.tag = "Ok" \/ response.error.variant = "MethodError"
        THEN [result |-> IF written.result.tag = "Ok" THEN Ok(<<>>)
                         ELSE Err(Linux_Error_from(written.result.error)),
              effects |-> written.effects, fs |-> written.fs]
        ELSE [result |-> Err([kind |-> "SettingBrightnessFailed",
                              device |-> device, source |-> response.error]),
              effects |-> <<>>, fs |-> fs]

\* the match on the response of call_method in BlockingDeviceImpl::set
BlockingDeviceImpl_set_response(fs, device, desired_value, response) ==
    LET written == set_value(fs, device, desired_value)
    IN  IF response.tag = "Ok"
        THEN [result |-> Ok(<<>>), effects |-> <<>>, fs |-> fs]
        ELSE IF response.error.variant = "MethodError"
        THEN [result |-> IF written.result.tag = "Ok" THEN Ok(<<>>)
                         ELSE Err(Linux_Error_from(written.result.error)),
              effects |-> written.effects, fs |-> written.fs]
        ELSE [result |-> Err([kind |-> "SettingBrightnessFailed",
                              device |-> device, source |-> response.error]),
              effects |-> <<>>, fs |-> fs]

\* percentage.min(100)
clamp(percentage) == Min(percentage, NatToBig(100))

\* the product taken in u32, as get takes it
desired_value_in_u32(percentage, max) ==
    LET product == U32Mul(max, percentage)
    IN  [value |-> BigDivSmall(product.value, 100), overflow |-> product.overflow]

\* (u64::from(percentage) * u64::from(max) / 100) as u32
desired_value_of(percentage, max) ==
    LET product == U64Mul(percentage, max)
    IN  [value |-> Wrap(BigDivSmall(product.value, 100), U32Limbs),
         overflow |-> product.overflow]

\* BlockingDeviceImpl::set of src/blocking/linux.rs.  env.connect is the outcome
\* of Connection::system(), env.response the outcome of call_method.
BlockingDeviceImpl_set(fs, device, percentage, env, checks) ==
    LET pct == clamp(percentage)
        max == read_value(fs, device, "Max")
        desired_value == desired_value_of(pct, max.result.value)
        desired == <<"backlight", device, desired_value.value>>
        call == CallEffect(USER_DBUS_NAME, SESSION_OBJECT_PATH, SESSION_INTERFACE,
                           SET_BRIGHTNESS_METHOD, desired)
        matched == BlockingDeviceImpl_set_response(fs, device, desired_value.value,
                                                   env.response)
    IN  IF max.result.tag # "Ok"
        THEN [result |-> Err(Linux_Error_from(max.result.error)),
              effects |-> max.effects, fs |-> fs]
        ELSE IF desired_value.overflow /\ checks
        THEN [result |-> Panic, effects |-> max.effects, fs |-> fs]
        ELSE IF env.connect.tag # "Ok"
        THEN [result |-> Err([kind |-> "SettingBrightnessFailed",
                              device |-> device, source |-> env.connect.error]),
              effects |-> max.effects \o <<ConnectEffect>>, fs |-> fs]
        ELSE [result |-> matched.result,
              effects |-> max.effects \o <<ConnectEffect, call>> \o matched.effects,
              fs |-> matched.fs]

\* a read that parses the content as it stands, the end of line included
linux_read_value_untrimmed(fs, device, name) ==
    LET path == <<"/sys/class/backlight", device, Value_as_str(name)>>
        file == FileAt(fs, path)
        parsed == parse_u32(file.content)
    IN  [effects |-> <<ReadEffect(path)>>,
         result |->
            IF ~file.readable
            THEN Err([type |-> "ReadingBacklightDeviceFailed",
                      device |-> device, path |-> path])
            ELSE IF parsed.tag = "Ok" THEN parsed
            ELSE Err([type |-> "ParsingBacklightInfoFailed",
                      device |-> device, path |-> path, reason |-> parsed.error])]

\* read_value of src/linux.rs
linux_read_value(fs, device, name) ==
    LET path == <<"/sys/class/backlight", device, Value_as_str(name)>>
        file == FileAt(fs, path)
        parsed == parse_u32(trim(file.content))
    IN  [effects |-> <<ReadEffect(path)>>,
         result |->
            IF ~file.readable
            THEN Err([type |-> "ReadingBacklightDeviceFailed",
                      device |-> device, path |-> path])
            ELSE IF parsed.tag = "Ok" THEN parsed
            ELSE Err([type |-> "ParsingBacklightInfoFailed",
                      device |-> device, path |-> path, reason |-> parsed.error])]

\* set_value of src/linux.rs
linux_set_value(fs, device, value) ==
    LET path == <<"/sys/class/backlight", device, "brightness">>
        file == FileAt(fs, path)
    IN  [effects |-> <<WriteEffect(path, to_string(value))>>,
         result |->
            IF file.writable THEN Ok(<<>>)
            ELSE Err([type |-> "WritingBrightnessFailed",
                      device |-> device, path |-> path]),
         fs |->
            IF file.writable
            THEN [fs EXCEPT ![device]["brightness"].content = to_string(value)]
            ELSE fs]

\* Brightness::get of src/linux.rs (the async backend)
Brightness_get(fs, device, checks) ==
    LET max == linux_read_value(fs, device, "Max")
        actual == linux_read_value(fs, device, "Actual")
        product == U32Mul(actual.result.value, NatToBig(100))
    IN  IF max.result.tag # "Ok"
        THEN [result |-> Err(Linux_Error_from(max.result.error)),
              effects |-> max.effects]
        ELSE IF actual.result.tag # "Ok"
        THEN [result |-> Err(Linux_Error_from(actual.result.error)),
              effects |-> max.effects \o actual.effects]
        ELSE [effects |-> max.effects \o actual.effects,
              result |->
                 IF max.result.value = <<>> THEN Ok(<<>>)
                 ELSE IF product.overflow /\ checks THEN Panic
                 ELSE Ok(Wrap(BigDiv(product.value, max.result.value), U32Limbs))]

\* Brightness::set of src/linux.rs (the async backend)
Brightness_set(fs, device, percentage, env, checks) ==
    LET pct == Min(percentage, NatToBig(100))
        max == linux_read_value(fs, device, "Max")
        product == U64Mul(pct, max.result.value)
        desired_value == Wrap(BigDivSmall(product.value, 100), U32Limbs)
        desired == <<"backlight", device, desired_value>>
        call == CallEffect("org.freedesktop.login1",
                           "/org/freedesktop/login1/session/auto",
                           "org.freedesktop.login1.Session", "SetBrightness", desired)
        written == linux_set_value(fs, device, desired_value)
    IN  IF max.result.tag # "Ok"
        THEN [result |-> Err(Linux_Error_from(max.result.error)),
              effects |-> max.effects, fs |-> fs]
        ELSE IF product.overflow /\ checks
        THEN [result |-> Panic, effects |-> max.effects, fs |-> fs]
        ELSE IF env.connect.tag # "Ok"
        THEN [result |-> Err([kind |-> "SettingBrightnessFailed",
                              device |-> device, source |-> env.connect.error]),
              effects |-> max.effects \o <<ConnectEffect>>, fs |-> fs]
        ELSE IF env.response.tag = "Ok"
        THEN [result |-> Ok(<<>>),
              effects |-> max.effects \o <<ConnectEffect, call>>, fs |-> fs]
        ELSE IF env.response.error.variant = "MethodError"
        THEN [result |-> IF written.result.tag = "Ok" THEN Ok(<<>>)
                         ELSE Err(Linux_Error_from(written.result.error)),
              effects |-> max.effects \o <<ConnectEffect, call>> \o written.effects,
              fs |-> written.fs]
        ELSE [result |-> Err([kind |-> "SettingBrightnessFailed",
                              device |-> device, source |-> env.response.error]),
              effects |-> max.effects \o <<ConnectEffect, call>>, fs |-> fs]

(***************************************************************************)
(* Windows backend: what the OS reports.  A logical monitor (HMONITOR) is  *)
(* an index into os.monitors; each has a number of physical monitors and a *)
(* list of display-device records, and each record says how CreateFileW on *)
(* its interface path ends and what the display configuration holds for    *)
(* the path.                                                               *)
(***************************************************************************)
NUL == "NUL"
\* a WCHAR array: the characters, then the terminator and the zeroed rest
Wide(chars) == chars \o <<NUL, NUL>>

DISPLAY_DEVICE_ACTIVE == {"ACTIVE"}
DISPLAYCONFIG_MODE_INFO_TYPE_TARGET == "TARGET"
DISPLAYCONFIG_OUTPUT_TECHNOLOGY_INTERNAL == "INTERNAL"
ERROR_SUCCESS == "ERROR_SUCCESS"
ERROR_ACCESS_DENIED == "ERROR_ACCESS_DENIED"
ERROR_NOT_FOUND == "ERROR_NOT_FOUND"
ERROR_GEN_FAILURE == "ERROR_GEN_FAILURE"

DeviceName(m, k) == Wide(<<"DISPLAY", ToString(m), "Monitor", ToString(k)>>)
DeviceString(m, k) == Wide(<<"Panel", ToString(m), ToString(k)>>)
DeviceKey(m, k) == Wide(<<"Registry", ToString(m), ToString(k)>>)
DeviceID(m, k) == Wide(<<"Interface", ToString(m), ToString(k)>>)
PhysicalDescription(m, j) == Wide(<<"Physical", ToString(m), ToString(j)>>)

\* the DISPLAY_DEVICEW the OS fills in for record k of logical monitor m
DISPLAY_DEVICEW(os, m, k) ==
    [StateFlags |-> IF os.monitors[m].records[k].active
                    THEN {"ACTIVE", "ATTACHED"} ELSE {"ATTACHED"},
     DeviceName |-> DeviceName(m, k), DeviceString |-> DeviceString(m, k),
     DeviceKey |-> DeviceKey(m, k), DeviceID |-> DeviceID(m, k)]

\* EnumDisplayDevicesW: the record at device_number (from 0), or FALSE past the end
EnumDisplayDevicesW(os, m, device_number) ==
    IF device_number < Len(os.monitors[m].records)
    THEN [found |-> TRUE, device |-> DISPLAY_DEVICEW(os, m, device_number + 1)]
    ELSE [found |-> FALSE]

\* where the OS keeps the record with interface path id
RecordAt(os, id) ==
    CHOOSE mk \in UNION {{<<m, k>> : k \in 1..Len(os.monitors[m].records)} :
                            m \in 1..Len(os.monitors)} :
        DeviceID(mk[1], mk[2]) = id

PhysicalHandle(m, j) == [handle |-> "physical", monitor |-> m, index |-> j]
FileHandle(id) == [handle |-> "file", path |-> id]

\* CreateFileW on an interface path: a new handle, or the error the record has
CreateFileW(os, id) ==
    LET mk == RecordAt(os, id)
        open == os.monitors[mk[1]].records[mk[2]].open
    IN  IF open = ERROR_SUCCESS THEN Ok(FileHandle(id)) ELSE Err(open)

\* the mode list of QueryDisplayConfig: a source mode, then one target mode for
\* every record the display configuration knows
RECURSIVE TargetModes(_, _, _)
TargetModes(os, m, k) ==
    IF m > Len(os.monitors) THEN <<>>
    ELSE IF k > Len(os.monitors[m].records) THEN TargetModes(os, m + 1, 1)
    ELSE (IF os.monitors[m].records[k].config = "missing" THEN <<>>
          ELSE <<[infoType |-> "TARGET", id |-> <<m, k>>]>>)
         \o TargetModes(os, m, k + 1)

QueryDisplayConfig(os) ==
    <<[infoType |-> "SOURCE", id |-> <<0, 0>>]>> \o TargetModes(os, 1, 1)
        \o (IF os.config = "device_info_failed"
            THEN <<[infoType |-> "TARGET", id |-> <<0, 0>>]>> ELSE <<>>)

\* DisplayConfigGetDeviceInfo for a target mode
DisplayConfigGetDeviceInfo(os, mode) ==
    LET m == mode.id[1]
        k == mode.id[2]
    IN  IF m = 0 THEN [status |-> ERROR_GEN_FAILURE]
        ELSE IF os.monitors[m].records[k].config = "denied"
        THEN [status |-> ERROR_ACCESS_DENIED]
        ELSE IF os.monitors[m].records[k].config = "failed"
        THEN [status |-> ERROR_GEN_FAILURE]
        ELSE [status |-> ERROR_SUCCESS,
              device_name |->
                 [monitorDevicePath |-> DeviceID(m, k),
                  outputTechnology |-> os.monitors[m].records[k].config]]

(***************************************************************************)
(* Windows backend, blocking (src/blocking/windows.rs).  A wrapped handle  *)
(* is the handle it owns; dropping one is a release of that handle.        *)
(***************************************************************************)
None == [some |-> FALSE]
Some(v) == [some |-> TRUE, value |-> v]

\* flag_set
flag_set(t, flag) == (t \cap flag) = flag

RECURSIVE UntilNul(_)
UntilNul(s) ==
    IF s = <<>> \/ s[1] = NUL THEN <<>> ELSE <<s[1]>> \o UntilNul(Tail(s))

\* wchar_to_string
wchar_to_string(s) == UntilNul(s)

\* impl From<SysError> for Error (src/blocking/windows.rs)
Windows_Error_from(e) ==
    IF e.type \in {"EnumerationMismatch", "DeviceInfoMissing",
                   "GetDisplayConfigBufferSizesFailed", "QueryDisplayConfigFailed",
                   "DisplayConfigGetDeviceInfoFailed", "GetPhysicalMonitorsFailed",
                   "EnumDisplayMonitorsFailed", "GetMonitorInfoFailed",
                   "OpeningMonitorDeviceInterfaceHandleFailed"}
    THEN [kind |-> "ListingDevicesFailed", source |-> e]
    ELSE IF e.type \in {"IoctlQuerySupportedBrightnessFailed",
                        "IoctlQueryDisplayBrightnessFailed",
                        "IoctlQueryDisplayBrightnessUnexpectedResponse",
                        "GettingMonitorBrightnessFailed"}
    THEN [kind |-> "GettingDeviceInfoFailed", device |-> e.device_name, source |-> e]
    ELSE [kind |-> "SettingBrightnessFailed", device |-> e.device_name, source |-> e]

RECURSIVE CollectInfoMap(_, _, _)
\* the collect() of get_device_info_map: the first error, or the map of all
\* paths the OS gave a name for (a later entry replaces an earlier one)
CollectInfoMap(os, modes, map) ==
    IF modes = <<>> THEN Ok(map)
    ELSE LET result == DisplayConfigGetDeviceInfo(os, modes[1])
             path == result.device_name.monitorDevicePath
         IN  IF result.status = ERROR_SUCCESS
             THEN CollectInfoMap(os, Tail(modes),
                     [p \in DOMAIN map \cup {path} |->
                         IF p = path THEN result.device_name ELSE map[p]])
             ELSE IF result.status = ERROR_ACCESS_DENIED
             THEN CollectInfoMap(os, Tail(modes), map)
             ELSE Err([type |-> "DisplayConfigGetDeviceInfoFailed",
                       source |-> result.status])

\* get_device_info_map
get_device_info_map(os) ==
    IF os.config = "sizes_failed"
    THEN Err([type |-> "GetDisplayConfigBufferSizesFailed"])
    ELSE IF os.config = "query_failed"
    THEN Err([type |-> "QueryDisplayConfigFailed"])
    ELSE CollectInfoMap(os,
            SelectSeq(QueryDisplayConfig(os),
                      LAMBDA mode : mode.infoType = DISPLAYCONFIG_MODE_INFO_TYPE_TARGET),
            <<>>)

\* enum_display_monitors
enum_display_monitors(os) ==
    IF os.enum_monitors_ok THEN Ok([m \in 1..Len(os.monitors) |-> m])
    ELSE Err([type |-> "EnumDisplayMonitorsFailed"])

\* get_physical_monitors_from_hmonitor: the wrapped handles of the monitor
get_physical_monitors_from_hmonitor(os, hmonitor) ==
    IF os.monitors[hmonitor].fail \in {"count", "handles"}
    THEN Err([type |-> "GetPhysicalMonitorsFailed",
              source |-> os.monitors[hmonitor].fail])
    ELSE Ok([j \in 1..os.monitors[hmonitor].physical |-> PhysicalHandle(hmonitor, j)])

RECURSIVE map_while_devices(_, _, _)
\* (0..).map_while(EnumDisplayDevicesW(..).then(device))
map_while_devices(os, hmonitor, device_number) ==
    LET got == EnumDisplayDevicesW(os, hmonitor, device_number)
    IN  IF got.found
        THEN <<got.device>> \o map_while_devices(os, hmonitor, device_number + 1)
        ELSE <<>>

\* get_display_devices_from_hmonitor
get_display_devices_from_hmonitor(os, hmonitor) ==
    IF os.monitors[hmonitor].fail = "info"
    THEN Err([type |-> "GetMonitorInfoFailed"])
    ELSE Ok(SelectSeq(map_while_devices(os, hmonitor, 0),
                      LAMBDA device : flag_set(device.StateFlags, DISPLAY_DEVICE_ACTIVE)))

\* an open that reports access-denied like every other failure
file_handle_denied_is_error(os, display_device) ==
    LET created == CreateFileW(os, display_device.DeviceID)
    IN  IF created.tag = "Ok" THEN Ok(Some(created.value))
        ELSE Err([type |-> "OpeningMonitorDeviceInterfaceHandleFailed",
                  device_name |-> wchar_to_string(display_device.DeviceName),
                  source |-> created.error])

\* get_file_handle_for_display_device
get_file_handle_for_display_device(os, display_device) ==
    LET created == CreateFileW(os, display_device.DeviceID)
    IN  IF created.tag = "Ok" THEN Ok(Some(created.value))
        ELSE IF created.error = ERROR_ACCESS_DENIED THEN Ok(None)
        ELSE Err([type |-> "OpeningMonitorDeviceInterfaceHandleFailed",
                  device_name |-> wchar_to_string(display_device.DeviceName),
                  source |-> created.error])

Produced(items, acquired, released) ==
    [items |-> items, acquired |-> acquired, released |-> released]

\* a closure that forgets the physical monitor of a pair it skips
pair_leaking_skipped(os, device_info_map, physical_monitor, display_device) ==
    LET file_handle == get_file_handle_for_display_device(os, display_device)
    IN  IF file_handle.tag = "Ok" /\ ~file_handle.value.some
        THEN Produced(<<>>, {}, <<>>)
        ELSE IF file_handle.tag = "Err"
        THEN Produced(<<Err(file_handle.error)>>, {}, <<physical_monitor>>)
        ELSE IF display_device.DeviceID \notin DOMAIN device_info_map
        THEN Produced(<<Err([type |-> "DeviceInfoMissing"])>>,
                      {file_handle.value.value},
                      <<file_handle.value.value, physical_monitor>>)
        ELSE Produced(
                <<Ok([physical_monitor |-> physical_monitor,
                      file_handle |-> file_handle.value.value,
                      device_name |-> wchar_to_string(display_device.DeviceName),
                      device_description |-> wchar_to_string(display_device.DeviceString),
                      device_key |-> wchar_to_string(display_device.DeviceKey),
                      device_path |-> wchar_to_string(display_device.DeviceID),
                      output_technology |->
                         device_info_map[display_device.DeviceID].outputTechnology])>>,
                {file_handle.value.value}, <<>>)

\* a pair that takes a device for external when the map lacks its path
pair_defaulting_technology(os, device_info_map, physical_monitor, display_device) ==
    LET file_handle == get_file_handle_for_display_device(os, display_device)
    IN  IF file_handle.tag = "Ok" /\ ~file_handle.value.some
        THEN Produced(<<>>, {}, <<physical_monitor>>)
        ELSE IF file_handle.tag = "Err"
        THEN Produced(<<Err(file_handle.error)>>, {}, <<physical_monitor>>)
        ELSE Produced(
                <<Ok([physical_monitor |-> physical_monitor,
                      file_handle |-> file_handle.value.value,
                      device_name |-> wchar_to_string(display_device.DeviceName),
                      device_description |-> wchar_to_string(display_device.DeviceString),
                      device_key |-> wchar_to_string(display_device.DeviceKey),
                      device_path |-> wchar_to_string(display_device.DeviceID),
                      output_technology |->
                         IF display_device.DeviceID \in DOMAIN device_info_map
                         THEN device_info_map[display_device.DeviceID].outputTechnology
                         ELSE "HDMI"])>>,
                {file_handle.value.value}, <<>>)

\* the filter_map and map closures of brightness_devices on one zipped pair: the
\* item (if any), the handle opened, and the handles dropped with the closure
blocking_pair(os, device_info_map, physical_monitor, display_device) ==
    LET file_handle == get_file_handle_for_display_device(os, display_device)
    IN  IF file_handle.tag = "Ok" /\ ~file_handle.value.some
        THEN Produced(<<>>, {}, <<physical_monitor>>)
        ELSE IF file_handle.tag = "Err"
        THEN Produced(<<Err(file_handle.error)>>, {}, <<physical_monitor>>)
        ELSE IF display_device.DeviceID \notin DOMAIN device_info_map
        THEN Produced(<<Err([type |-> "DeviceInfoMissing"])>>,
                      {file_handle.value.value},
                      <<file_handle.value.value, physical_monitor>>)
        ELSE Produced(
                <<Ok([physical_monitor |-> physical_monitor,
                      file_handle |-> file_handle.value.value,
                      device_name |-> wchar_to_string(display_device.DeviceName),
                      device_description |-> wchar_to_string(display_device.DeviceString),
                      device_key |-> wchar_to_string(display_device.DeviceKey),
                      device_path |-> wchar_to_string(display_device.DeviceID),
                      output_technology |->
                         device_info_map[display_device.DeviceID].outputTechnology])>>,
                {file_handle.value.value}, <<>>)

RECURSIVE zip_closing_gaps(_, _, _, _, _)
\* a pairing that gives the physical monitor of a skipped pair to the next record
zip_closing_gaps(os, device_info_map, physical_monitors, display_devices, i) ==
    IF physical_monitors = <<>> \/ i > Len(display_devices)
    THEN Produced(<<>>, {}, physical_monitors)
    ELSE LET first == blocking_pair(os, device_info_map,
                                    physical_monitors[1], display_devices[i])
             skipped == first.items = <<>>
             rest == zip_closing_gaps(os, device_info_map,
                                      IF skipped THEN physical_monitors
                                      ELSE Tail(physical_monitors),
                                      display_devices, i + 1)
         IN  Produced(first.items \o rest.items,
                      first.acquired \cup rest.acquired,
                      (IF skipped THEN <<>> ELSE first.released) \o rest.released)

RECURSIVE blocking_zip(_, _, _, _, _)
\* physical_monitors.into_iter().zip(display_devices) ... .collect(), from pair i
blocking_zip(os, device_info_map, physical_monitors, display_devices, i) ==
    IF i > Len(physical_monitors) \/ i > Len(display_devices)
    THEN Produced(<<>>, {}, <<>>)
    ELSE LET first == blocking_pair(os, device_info_map,
                                    physical_monitors[i], display_devices[i])
             rest == blocking_zip(os, device_info_map,
                                  physical_monitors, display_devices, i + 1)
         IN  Produced(first.items \o rest.items,
                      first.acquired \cup rest.acquired,
                      first.released \o rest.released)

Range(s) == {s[i] : i \in 1..Len(s)}

\* the flat_map closure of brightness_devices for one logical monitor
blocking_monitor(os, device_info_map, hmonitor) ==
    LET physical_monitors == get_physical_monitors_from_hmonitor(os, hmonitor)
        display_devices == get_display_devices_from_hmonitor(os, hmonitor)
        zipped == blocking_zip(os, device_info_map, physical_monitors.value,
                               display_devices.value, 1)
    IN  IF physical_monitors.tag # "Ok"
        THEN Produced(<<physical_monitors>>, {}, <<>>)
        ELSE IF display_devices.tag # "Ok"
        THEN Produced(<<display_devices>>, Range(physical_monitors.value),
                      physical_monitors.value)
        ELSE IF Len(display_devices.value) # Len(physical_monitors.value)
        THEN Produced(<<Err([type |-> "EnumerationMismatch"])>>,
                      Range(physical_monitors.value), physical_monitors.value)
        ELSE Produced(zipped.items,
                      Range(physical_monitors.value) \cup zipped.acquired,
                      zipped.released)

(***************************************************************************)
(* Windows backend, async (src/windows.rs).                                *)
(***************************************************************************)
\* impl From<SysError> for Error (src/windows.rs)
Async_Windows_Error_from(e) ==
    IF e.type \in {"EnumerationMismatch", "GetPhysicalMonitorsFailed",
                   "EnumDisplayMonitorsFailed", "GetMonitorInfoFailed",
                   "OpeningMonitorDeviceInterfaceHandleFailed"}
    THEN [kind |-> "ListingDevicesFailed", source |-> e]
    ELSE IF e.type \in {"IoctlQuerySupportedBrightnessFailed",
                        "IoctlQueryDisplayBrightnessFailed",
                        "IoctlQueryDisplayBrightnessUnexpectedResponse",
                        "GettingMonitorBrightnessFailed"}
    THEN [kind |-> "GettingDeviceInfoFailed", device |-> e.device_name, source |-> e]
    ELSE [kind |-> "SettingBrightnessFailed", device |-> e.device_name, source |-> e]

RECURSIVE take_while_devices(_, _, _)
\* (0..).map(EnumDisplayDevicesW(..).then(device)).take_while(is_some).flatten()
take_while_devices(os, hmonitor, device_number) ==
    LET got == EnumDisplayDevicesW(os, hmonitor, device_number)
    IN  IF got.found
        THEN <<got.device>> \o take_while_devices(os, hmonitor, device_number + 1)
        ELSE <<>>

\* the filter_map closure of brightness_devices (src/windows.rs) on one pair
async_pair(os, physical_monitor, description, display_device) ==
    LET device_name == wchar_to_string(display_device.DeviceName)
        handle == CreateFileW(os, display_device.DeviceID)
    IN  IF handle.tag # "Ok" /\ handle.error = ERROR_ACCESS_DENIED
        THEN Produced(<<>>, {}, <<physical_monitor>>)
        ELSE IF handle.tag # "Ok"
        THEN Produced(<<Err([type |-> "OpeningMonitorDeviceInterfaceHandleFailed",
                             device_name |-> device_name, source |-> handle.error])>>,
                      {}, <<physical_monitor>>)
        ELSE Produced(
                <<Ok([physical_monitor |-> physical_monitor,
                      file_handle |-> handle.value,
                      device_name |-> device_name,
                      device_description |-> wchar_to_string(description),
                      device_key |-> wchar_to_string(display_device.DeviceKey)])>>,
                {handle.value}, <<>>)

RECURSIVE async_zip(_, _, _, _)
async_zip(os, physical_monitors, display_devices, i) ==
    IF i > Len(physical_monitors) \/ i > Len(display_devices)
    THEN Produced(<<>>, {}, <<>>)
    ELSE LET first == async_pair(os, physical_monitors[i][1], physical_monitors[i][2],
                                 display_devices[i])
             rest == async_zip(os, physical_monitors, display_devices, i + 1)
         IN  Produced(first.items \o rest.items,
                      first.acquired \cup rest.acquired,
                      first.released \o rest.released)

\* the flat_map closure of brightness_devices (src/windows.rs) for one logical monitor
async_monitor(os, hmonitor) ==
    LET physical_monitors ==
            [j \in 1..os.monitors[hmonitor].physical |->
                <<PhysicalHandle(hmonitor, j), PhysicalDescription(hmonitor, j)>>]
        handles == [j \in 1..Len(physical_monitors) |-> physical_monitors[j][1]]
        display_devices == take_while_devices(os, hmonitor, 0)
        zipped == async_zip(os, physical_monitors, display_devices, 1)
    IN  IF os.monitors[hmonitor].fail = "info"
        THEN Produced(<<Err([type |-> "GetMonitorInfoFailed"])>>, {}, <<>>)
        ELSE IF os.monitors[hmonitor].fail \in {"count", "handles"}
        THEN Produced(<<Err([type |-> "GetPhysicalMonitorsFailed",
                             source |-> os.monitors[hmonitor].fail])>>, {}, <<>>)
        ELSE IF Len(display_devices) # Len(physical_monitors)
        THEN Produced(<<Err([type |-> "EnumerationMismatch"])>>, Range(handles), handles)
        ELSE Produced(zipped.items, Range(handles) \cup zipped.acquired, zipped.released)

(***************************************************************************)
(* The environment of the Linux backend: the backlight directory and the   *)
(* login1 session service.                                                 *)
(***************************************************************************)
SmallRaw == 1
OverRange == 1

DeviceNames == {"intel_backlight", "acpi_video0"}

File(readable, writable, content) ==
    [readable |-> readable, writable |-> writable, content |-> content]
Line(v) == to_string(v) \o <<"\n">>

SmallValues == {NatToBig(n) : n \in 0..SmallRaw}
\* 42949673 * 100 is the least multiple of 100 above u32::MAX
MaxValues == SmallValues \cup {NatToBig(100), U32Max}
ActualValues == SmallValues \cup {NatToBig(200), NatToBig(42949673)}
Percentages ==
    {NatToBig(0), NatToBig(50), NatToBig(60), NatToBig(100), U32Max}
        \cup {NatToBig(100 + n) : n \in 1..OverRange}

Unreadable == File(FALSE, FALSE, <<>>)
MaxFiles ==
    {File(TRUE, FALSE, Line(v)) : v \in MaxValues}
        \cup {Unreadable, File(TRUE, FALSE, <<"4", "2", "9", "4", "9", "6", "7", "2", "9", "6", "\n">>)}
ActualFiles ==
    {File(TRUE, FALSE, Line(v)) : v \in ActualValues}
        \cup {Unreadable, File(TRUE, FALSE, <<"\n">>)}
BrightnessFiles == {File(TRUE, w, <<"0">>) : w \in BOOLEAN}

Attributes(max, actual, brightness) ==
    [max_brightness |-> max, actual_brightness |-> actual, brightness |-> brightness]
DefaultAttributes ==
    Attributes(File(TRUE, FALSE, Line(NatToBig(255))),
               File(TRUE, FALSE, Line(NatToBig(255))),
               File(TRUE, TRUE, <<"2", "5", "5">>))

\* what call_method can return: a reply, a D-Bus error reply (MethodError, whatever
\* the error name), or a failure of the connection
UnknownMethod == "org.freedesktop.DBus.Error.UnknownMethod"
MethodErrorNames ==
    {UnknownMethod, "org.freedesktop.DBus.Error.AccessDenied",
     "org.freedesktop.DBus.Error.NotSupported"}
Responses ==
    {Ok(<<>>)}
        \cup {Err([variant |-> "MethodError", name |-> n]) : n \in MethodErrorNames}
        \cup {Err([variant |-> "InputOutput"])}
Envs ==
    {[connect |-> Err([variant |-> "InputOutput"]), response |-> Ok(<<>>)]}
        \cup {[connect |-> Ok(<<>>), response |-> r] : r \in Responses}

\* the session service applies an accepted SetBrightness(subsystem, name, value)
logind_SetBrightness(fs, env, effects) ==
    LET calls == {i \in 1..Len(effects) : effects[i].op = "call"}
        body == effects[CHOOSE i \in calls : TRUE].body
    IN  IF calls # {} /\ env.response.tag = "Ok"
        THEN [fs EXCEPT ![body[2]]["brightness"].content = to_string(body[3])]
        ELSE fs

(***************************************************************************)
(* What the OS can report for enumeration.                                 *)
(***************************************************************************)
MaxPhysical == 2
MaxRecords == 2

Record(active, open, config) == [active |-> active, open |-> open, config |-> config]
External == Record(TRUE, ERROR_SUCCESS, "HDMI")
Internal == Record(TRUE, ERROR_SUCCESS, DISPLAYCONFIG_OUTPUT_TECHNOLOGY_INTERNAL)
RecordKinds ==
    {External, Internal,
     Record(TRUE, ERROR_SUCCESS, "missing"),
     Record(TRUE, ERROR_SUCCESS, "denied"),
     Record(TRUE, ERROR_SUCCESS, "failed"),
     Record(TRUE, ERROR_ACCESS_DENIED, "HDMI"),
     Record(TRUE, ERROR_GEN_FAILURE, "HDMI"),
     Record(FALSE, ERROR_SUCCESS, "HDMI")}

Monitor(fail, physical, records) ==
    [fail |-> fail, physical |-> physical, records |-> records]
\* the monitor under study: every combination of handles and records, or a failing step
FocusMonitors ==
    {Monitor("none", n, r) :
        n \in 0..MaxPhysical, r \in UNION {[1..k -> RecordKinds] : k \in 0..MaxRecords}}
        \cup {Monitor(f, n, <<External>>) :
                f \in {"info", "count", "handles"}, n \in 0..MaxPhysical}
\* the monitor beside it: a good pair, a mismatch, a failing step
OtherMonitors ==
    {Monitor("none", 1, <<External>>), Monitor("none", 2, <<Internal>>),
     Monitor("info", 1, <<External>>)}
MonitorLists ==
    {<<f>> : f \in FocusMonitors}
        \cup {<<f, o>> : f \in FocusMonitors, o \in OtherMonitors}
        \cup {<<o, f>> : f \in FocusMonitors, o \in OtherMonitors}
OsStates ==
    {[enum_monitors_ok |-> TRUE, config |-> "ok", monitors |-> ms] : ms \in MonitorLists}
        \cup {[enum_monitors_ok |-> e, config |-> c,
               monitors |-> <<Monitor("none", 1, <<Internal>>)>>] :
                e \in BOOLEAN,
                c \in {"ok", "sizes_failed", "query_failed", "device_info_failed"}}

(***************************************************************************)
(* Brightness control on Windows.  hw is what the hardware behind a device *)
(* holds; fault names the OS call that fails during one operation.         *)
(***************************************************************************)
DISPLAYPOLICY_AC == 1
DISPLAYPOLICY_DC == 2
DISPLAYPOLICY_BOTH == 3

\* u32 - u32 and u32 + u32 in u32 arithmetic: the wrapped result and whether
\* it overflowed
U32Sub(a, b) ==
    IF BigLe(b, a) THEN [value |-> BigSub(a, b), overflow |-> FALSE]
    ELSE [value |-> BigSub(BigAdd(a, <<0, 0, 0, 0, 1>>), b), overflow |-> TRUE]
U32Add(a, b) ==
    [value |-> Wrap(BigAdd(a, b), U32Limbs), overflow |-> ~FitsU32(BigAdd(a, b))]

IoEffect(handle, code, input) ==
    [op |-> "DeviceIoControl", handle |-> handle, code |-> code, input |-> input]
DdcEffect(op, handle, input) == [op |-> op, handle |-> handle, input |-> input]

\* DeviceIoControl on the interface handle of a display device
DeviceIoControl(hw, fault, code, input) ==
    IF code = "IOCTL_VIDEO_QUERY_SUPPORTED_BRIGHTNESS"
    THEN (IF fault = code THEN Err(ERROR_GEN_FAILURE)
          ELSE IF hw.kind # "internal" THEN Err(ERROR_NOT_FOUND)
          ELSE Ok(hw.levels))
    ELSE IF fault = code \/ hw.kind # "internal" THEN Err(ERROR_GEN_FAILURE)
    ELSE IF code = "IOCTL_VIDEO_QUERY_DISPLAY_BRIGHTNESS"
    THEN Ok([ucDisplayPolicy |-> hw.policy, ucACBrightness |-> hw.ac,
             ucDCBrightness |-> hw.dc])
    ELSE Ok(input)

\* what the panel holds after an IOCTL_VIDEO_SET_DISPLAY_BRIGHTNESS it accepted
PanelAfterSet(hw, display_brightness) ==
    [hw EXCEPT
        !.ac = IF display_brightness.ucDisplayPolicy \in {DISPLAYPOLICY_AC, DISPLAYPOLICY_BOTH}
               THEN display_brightness.ucACBrightness ELSE @,
        !.dc = IF display_brightness.ucDisplayPolicy \in {DISPLAYPOLICY_DC, DISPLAYPOLICY_BOTH}
               THEN display_brightness.ucDCBrightness ELSE @]

\* GetMonitorBrightness and SetMonitorBrightness on a physical monitor handle
GetMonitorBrightness(hw, fault) ==
    IF fault = "GetMonitorBrightness" \/ hw.kind # "external" THEN Err(ERROR_GEN_FAILURE)
    ELSE Ok([min |-> hw.min, current |-> hw.current, max |-> hw.max])
SetMonitorBrightness(hw, fault, value) ==
    IF fault = "SetMonitorBrightness" \/ hw.kind # "external" THEN Err(ERROR_GEN_FAILURE)
    ELSE Ok([hw EXCEPT !.current = value])

is_internal(device) ==
    device.output_technology = DISPLAYCONFIG_OUTPUT_TECHNOLOGY_INTERNAL

\* DdcciBrightnessValues::get_current_percentage: Ok(percentage), or Panic
\* where a subtraction overflows in a build that checks overflow
get_current_percentage(v, checks) ==
    LET normalised_max == U32Sub(v.max, v.min)
        normalised_current == U32Sub(v.current, v.min)
    IN  IF checks /\ (normalised_max.overflow \/ normalised_current.overflow)
        THEN Panic
        ELSE Ok(F64AsU32(F64Round(
                    F64Mul(F64Div(F64FromU32(normalised_current.value),
                                  F64FromU32(normalised_max.value)),
                           F64FromU32(<<100>>)))))

\* DdcciBrightnessValues::percentage_to_current
percentage_to_current(v, percentage, checks) ==
    LET normalised_max == U32Sub(v.max, v.min)
        fraction == F64Div(F64FromU32(percentage), F64FromU32(<<100>>))
        normalised_current == F64Mul(fraction, F64FromU32(normalised_max.value))
        sum == U32Add(F64AsU32(F64Round(normalised_current)), v.min)
    IN  IF checks /\ (normalised_max.overflow \/ sum.overflow) THEN Panic
        ELSE Ok(sum.value)

ddcci_get_monitor_brightness(device, hw, fault) ==
    LET r == GetMonitorBrightness(hw, fault)
    IN  [effects |-> <<DdcEffect("GetMonitorBrightness", device.physical_monitor, <<>>)>>,
         result |-> IF r.tag = "Ok" THEN r
                    ELSE Err([type |-> "GettingMonitorBrightnessFailed",
                              device_name |-> device.device_name, source |-> r.error])]

ddcci_set_monitor_brightness(device, hw, fault, value) ==
    LET r == SetMonitorBrightness(hw, fault, value)
    IN  [effects |-> <<DdcEffect("SetMonitorBrightness", device.physical_monitor, value)>>,
         result |-> IF r.tag = "Ok" THEN Ok(<<>>)
                    ELSE Err([type |-> "SettingBrightnessFailed",
                              device_name |-> device.device_name, source |-> r.error]),
         hw |-> IF r.tag = "Ok" THEN r.value ELSE hw]

\* |num - percentage| of get_nearest, computed in i64
AbsDiff(a, b) == IF BigLe(a, b) THEN BigSub(b, a) ELSE BigSub(a, b)

RECURSIVE min_by_key(_, _, _, _)
\* Iterator::min_by_key from level i on: the first of the levels with the least key
min_by_key(levels, percentage, i, best) ==
    IF i > Len(levels) THEN best
    ELSE IF BigLt(AbsDiff(NatToBig(levels[i]), percentage),
                  AbsDiff(NatToBig(best), percentage))
    THEN min_by_key(levels, percentage, i + 1, levels[i])
    ELSE min_by_key(levels, percentage, i + 1, best)

\* a selection that keeps the last of the levels with the least key
get_nearest_last(levels, percentage) ==
    IF levels = <<>> THEN 0
    ELSE levels[CHOOSE i \in 1..Len(levels) :
                   \A j \in 1..Len(levels) :
                      /\ BigLe(AbsDiff(NatToBig(levels[i]), percentage),
                               AbsDiff(NatToBig(levels[j]), percentage))
                      /\ j > i => BigLt(AbsDiff(NatToBig(levels[i]), percentage),
                                        AbsDiff(NatToBig(levels[j]), percentage))]

\* a selection that takes full brightness when there is no level to select
get_nearest_or_full(levels, percentage) ==
    IF levels = <<>> THEN 100 ELSE min_by_key(levels, percentage, 2, levels[1])

\* IoctlSupportedBrightnessLevels::get_nearest
get_nearest(levels, percentage) ==
    IF levels = <<>> THEN 0 ELSE min_by_key(levels, percentage, 2, levels[1])

ioctl_query_supported_brightness(device, hw, fault) ==
    LET r == DeviceIoControl(hw, fault, "IOCTL_VIDEO_QUERY_SUPPORTED_BRIGHTNESS", <<>>)
    IN  [effects |-> <<IoEffect(device.file_handle,
                                "IOCTL_VIDEO_QUERY_SUPPORTED_BRIGHTNESS", <<>>)>>,
         result |-> IF r.tag = "Ok" THEN r
                    ELSE Err([type |-> "IoctlQuerySupportedBrightnessFailed",
                              device_name |-> device.device_name, source |-> r.error])]

\* a query that takes every policy other than AC for DC
ioctl_query_assuming_dc(device, hw, fault) ==
    LET r == DeviceIoControl(hw, fault, "IOCTL_VIDEO_QUERY_DISPLAY_BRIGHTNESS", <<>>)
    IN  [effects |-> <<IoEffect(device.file_handle,
                                "IOCTL_VIDEO_QUERY_DISPLAY_BRIGHTNESS", <<>>)>>,
         result |->
            IF r.tag # "Ok"
            THEN Err([type |-> "IoctlQueryDisplayBrightnessFailed",
                      device_name |-> device.device_name, source |-> r.error])
            ELSE IF r.value.ucDisplayPolicy = DISPLAYPOLICY_AC
            THEN Ok(NatToBig(r.value.ucACBrightness))
            ELSE Ok(NatToBig(r.value.ucDCBrightness))]

ioctl_query_display_brightness(device, hw, fault) ==
    LET r == DeviceIoControl(hw, fault, "IOCTL_VIDEO_QUERY_DISPLAY_BRIGHTNESS", <<>>)
    IN  [effects |-> <<IoEffect(device.file_handle,
                                "IOCTL_VIDEO_QUERY_DISPLAY_BRIGHTNESS", <<>>)>>,
         result |->
            IF r.tag # "Ok"
            THEN Err([type |-> "IoctlQueryDisplayBrightnessFailed",
                      device_name |-> device.device_name, source |-> r.error])
            ELSE IF r.value.ucDisplayPolicy = DISPLAYPOLICY_AC
            THEN Ok(NatToBig(r.value.ucACBrightness))
            ELSE IF r.value.ucDisplayPolicy = DISPLAYPOLICY_DC
            THEN Ok(NatToBig(r.value.ucDCBrightness))
            ELSE Err([type |-> "IoctlQueryDisplayBrightnessUnexpectedResponse",
                      device_name |-> device.device_name])]

\* a set that applies the value to the AC field only
ioctl_set_ac_only(device, hw, fault, value) ==
    LET display_brightness == [ucACBrightness |-> value, ucDCBrightness |-> value,
                               ucDisplayPolicy |-> DISPLAYPOLICY_AC]
        r == DeviceIoControl(hw, fault, "IOCTL_VIDEO_SET_DISPLAY_BRIGHTNESS",
                             display_brightness)
    IN  [effects |-> <<IoEffect(device.file_handle, "IOCTL_VIDEO_SET_DISPLAY_BRIGHTNESS",
                                display_brightness)>>,
         result |-> IF r.tag = "Ok" THEN Ok(<<>>)
                    ELSE Err([type |-> "IoctlSetBrightnessFailed",
                              device_name |-> device.device_name, source |-> r.error]),
         hw |-> IF r.tag = "Ok" THEN PanelAfterSet(hw, display_brightness) ELSE hw]

ioctl_set_display_brightness(device, hw, fault, value) ==
    LET display_brightness == [ucACBrightness |-> value, ucDCBrightness |-> value,
                               ucDisplayPolicy |-> DISPLAYPOLICY_BOTH]
        r == DeviceIoControl(hw, fault, "IOCTL_VIDEO_SET_DISPLAY_BRIGHTNESS",
                             display_brightness)
    IN  [effects |-> <<IoEffect(device.file_handle, "IOCTL_VIDEO_SET_DISPLAY_BRIGHTNESS",
                                display_brightness)>>,
         result |-> IF r.tag = "Ok" THEN Ok(<<>>)
                    ELSE Err([type |-> "IoctlSetBrightnessFailed",
                              device_name |-> device.device_name, source |-> r.error]),
         hw |-> IF r.tag = "Ok" THEN PanelAfterSet(hw, display_brightness) ELSE hw]

\* From<SysError> for Error of the backend behind a facade
Error_from(api, e) ==
    IF api = "blocking" THEN Windows_Error_from(e) ELSE Async_Windows_Error_from(e)

\* the ? operator on a step of get or set, behind the facade's map_err(Into::into)
Failed(step, api, hw) ==
    [effects |-> step.effects, result |-> Err(Error_from(api, step.result.error)), hw |-> hw]
\* a step followed by the rest of the operation
Then(step, rest) ==
    [effects |-> step.effects \o rest.effects, result |-> rest.result, hw |-> rest.hw]
Done(result, hw) == [effects |-> <<>>, result |-> result, hw |-> hw]

\* the get and set steps shared by the two protocols' callers
ioctl_get_steps(device, hw, fault, api) ==
    LET q == ioctl_query_display_brightness(device, hw, fault)
    IN  IF q.result.tag # "Ok" THEN Failed(q, api, hw)
        ELSE Then(q, Done(q.result, hw))

\* a get that leaves the monitor at its minimum
ddcci_get_steps_resetting(device, hw, fault, checks, api) ==
    LET v == ddcci_get_monitor_brightness(device, hw, fault)
    IN  IF v.result.tag # "Ok" THEN Failed(v, api, hw)
        ELSE Then(v, Done(get_current_percentage(v.result.value, checks),
                          [hw EXCEPT !.current = hw.min]))

ddcci_get_steps(device, hw, fault, checks, api) ==
    LET v == ddcci_get_monitor_brightness(device, hw, fault)
    IN  IF v.result.tag # "Ok" THEN Failed(v, api, hw)
        ELSE Then(v, Done(get_current_percentage(v.result.value, checks), hw))

ioctl_set_steps(device, hw, fault, levels, percentage, api) ==
    LET new_value == get_nearest(levels, percentage)
        s == ioctl_set_display_brightness(device, hw, fault, new_value)
    IN  IF s.result.tag # "Ok" THEN Failed(s, api, hw) ELSE s

\* a set that writes the percentage as the raw value when the range cannot be
\* read
ddcci_set_steps_blind(device, hw, fault, percentage, checks, api) ==
    LET current == ddcci_get_monitor_brightness(device, hw, fault)
        new_value == percentage_to_current(current.result.value, percentage, checks)
        s == ddcci_set_monitor_brightness(device, hw, fault, new_value.value)
        blind == ddcci_set_monitor_brightness(device, hw, fault, percentage)
    IN  IF current.result.tag # "Ok"
        THEN [effects |-> current.effects \o blind.effects,
              result |-> Err(Error_from(api, current.result.error)),
              hw |-> blind.hw]
        ELSE IF new_value.tag = "Panic" THEN Then(current, Done(Panic, hw))
        ELSE IF s.result.tag # "Ok" THEN Then(current, Failed(s, api, hw))
        ELSE Then(current, s)

ddcci_set_steps(device, hw, fault, percentage, checks, api) ==
    LET current == ddcci_get_monitor_brightness(device, hw, fault)
        new_value == percentage_to_current(current.result.value, percentage, checks)
        s == ddcci_set_monitor_brightness(device, hw, fault, new_value.value)
    IN  IF current.result.tag # "Ok" THEN Failed(current, api, hw)
        ELSE IF new_value.tag = "Panic" THEN Then(current, Done(Panic, hw))
        ELSE IF s.result.tag # "Ok" THEN Then(current, Failed(s, api, hw))
        ELSE Then(current, s)

\* Brightness::get of src/blocking/windows.rs behind src/blocking.rs
Windows_BlockingDeviceImpl_get(device, hw, fault, checks) ==
    IF is_internal(device) THEN ioctl_get_steps(device, hw, fault, "blocking")
    ELSE ddcci_get_steps(device, hw, fault, checks, "blocking")

\* Brightness::set of src/blocking/windows.rs behind src/blocking.rs
Windows_BlockingDeviceImpl_set(device, hw, fault, percentage, checks) ==
    IF is_internal(device)
    THEN LET supported == ioctl_query_supported_brightness(device, hw, fault)
         IN  IF supported.result.tag # "Ok" THEN Failed(supported, "blocking", hw)
             ELSE Then(supported,
                       ioctl_set_steps(device, hw, fault, supported.result.value,
                                       percentage, "blocking"))
    ELSE ddcci_set_steps(device, hw, fault, percentage, checks, "blocking")

is_not_found(e) == e = ERROR_NOT_FOUND

\* ioctl_query_supported_brightness of src/windows.rs: the OS error unwrapped
async_ioctl_query_supported_brightness(device, hw, fault) ==
    [effects |-> <<IoEffect(device.file_handle,
                            "IOCTL_VIDEO_QUERY_SUPPORTED_BRIGHTNESS", <<>>)>>,
     result |-> DeviceIoControl(hw, fault, "IOCTL_VIDEO_QUERY_SUPPORTED_BRIGHTNESS", <<>>)]

\* the last arm of the match in get and set of src/windows.rs
async_query_failed(device, ioctl_query, hw) ==
    [effects |-> ioctl_query.effects,
     result |-> Err(Async_Windows_Error_from(
                       [type |-> "IoctlQuerySupportedBrightnessFailed",
                        device_name |-> device.device_name,
                        source |-> ioctl_query.result.error])),
     hw |-> hw]

\* Brightness::get of src/windows.rs behind src/lib.rs
Windows_Brightness_get(device, hw, fault, checks) ==
    LET ioctl_query == async_ioctl_query_supported_brightness(device, hw, fault)
    IN  IF ioctl_query.result.tag = "Ok"
        THEN Then(ioctl_query, ioctl_get_steps(device, hw, fault, "async"))
        ELSE IF is_not_found(ioctl_query.result.error)
        THEN Then(ioctl_query,
                  ddcci_get_steps(device, hw, fault, checks, "async"))
        ELSE async_query_failed(device, ioctl_query, hw)

\* Brightness::set of src/windows.rs behind src/lib.rs
Windows_Brightness_set(device, hw, fault, percentage, checks) ==
    LET ioctl_query == async_ioctl_query_supported_brightness(device, hw, fault)
    IN  IF ioctl_query.result.tag = "Ok"
        THEN Then(ioctl_query,
                  ioctl_set_steps(device, hw, fault, ioctl_query.result.value,
                                  percentage, "async"))
        ELSE IF is_not_found(ioctl_query.result.error)
        THEN Then(ioctl_query,
                  ddcci_set_steps(device, hw, fault, percentage, checks,
                                  "async"))
        ELSE async_query_failed(device, ioctl_query, hw)

(***************************************************************************)
(* What the hardware behind a Windows device can hold.                     *)
(***************************************************************************)
LevelLists ==
    {<<>>, <<0, 20, 50, 80, 100>>, <<100, 40, 60>>, <<40, 60>>, <<60, 40>>}
Bytes == {0, 50, 100, 255}
Policies == {0, DISPLAYPOLICY_AC, DISPLAYPOLICY_DC, DISPLAYPOLICY_BOTH}
InternalPanels ==
    {[kind |-> "internal", levels |-> l, ac |-> a, dc |-> d, policy |-> p,
      min |-> <<>>, current |-> <<>>, max |-> <<>>] :
        l \in LevelLists, a \in Bytes, d \in Bytes, p \in Policies}
MonitorMins == {<<>>, <<10>>}
MonitorMaxs == {<<>>, <<10>>, <<100>>, <<200>>, U32Max}
MonitorCurrents == {<<>>, <<5>>, <<29>>, <<100>>, <<250>>}
ExternalMonitors ==
    {[kind |-> "external", levels |-> <<>>, ac |-> 0, dc |-> 0, policy |-> 0,
      min |-> lo, current |-> c, max |-> hi] :
        lo \in MonitorMins, c \in MonitorCurrents, hi \in MonitorMaxs}
Panels == InternalPanels \cup ExternalMonitors
Faults ==
    {"none", "IOCTL_VIDEO_QUERY_SUPPORTED_BRIGHTNESS",
     "IOCTL_VIDEO_QUERY_DISPLAY_BRIGHTNESS", "IOCTL_VIDEO_SET_DISPLAY_BRIGHTNESS",
     "GetMonitorBrightness", "SetMonitorBrightness"}

\* the device the enumeration gives for a panel or a monitor
WindowsDevice(kind) ==
    [physical_monitor |-> PhysicalHandle(1, 1),
     file_handle |-> FileHandle(DeviceID(1, 1)),
     device_name |-> wchar_to_string(DeviceName(1, 1)),
     device_description |-> wchar_to_string(DeviceString(1, 1)),
     device_key |-> wchar_to_string(DeviceKey(1, 1)),
     device_path |-> wchar_to_string(DeviceID(1, 1)),
     output_technology |->
        IF kind = "internal" THEN DISPLAYCONFIG_OUTPUT_TECHNOLOGY_INTERNAL ELSE "HDMI"]

VARIABLES target, device, sysfs, overflow_checks, last,
          os, call, live, acquired, releases, panel

linux_vars == <<device, sysfs, overflow_checks, last>>
enum_vars == <<os, call, live, acquired, releases>>
vars == <<target, linux_vars, enum_vars, panel>>

NoCall == [api |-> "none", op |-> "none"]
Call(api, op, percentage, env, r) ==
    [api |-> api, op |-> op, percentage |-> percentage, env |-> env,
     result |-> r.result, effects |-> r.effects]

NoListing ==
    [api |-> "none", phase |-> "idle", pending |-> <<>>,
     device_info_map |-> <<>>, items |-> <<>>]

LinuxIdle ==
    /\ device = "intel_backlight"
    /\ sysfs = [d \in DeviceNames |-> DefaultAttributes]
    /\ overflow_checks = FALSE
    /\ last = NoCall

EnumIdle ==
    /\ os = [enum_monitors_ok |-> TRUE, config |-> "ok",
             monitors |-> <<Monitor("none", 1, <<Internal>>)>>]
    /\ call = NoListing
    /\ live = {}
    /\ acquired = {}
    /\ releases = <<>>

PanelIdle == panel = CHOOSE hw \in InternalPanels : TRUE

LinuxInit ==
    /\ target = "linux"
    /\ PanelIdle
    /\ device \in DeviceNames
    /\ \E max \in MaxFiles, actual \in ActualFiles, brightness \in BrightnessFiles :
          sysfs = [d \in DeviceNames |->
                     IF d = device THEN Attributes(max, actual, brightness)
                     ELSE DefaultAttributes]
    /\ overflow_checks \in BOOLEAN
    /\ last = NoCall
    /\ EnumIdle

\* a call is issued when the previous one has returned to the caller
BlockingGet ==
    /\ target = "linux"
    /\ last = NoCall
    /\ last' = Call("blocking", "get", <<>>, <<>>,
                    BlockingDeviceImpl_get(sysfs, device, overflow_checks))
    /\ UNCHANGED <<target, device, sysfs, overflow_checks, enum_vars, panel>>

AsyncGet ==
    /\ target = "linux"
    /\ last = NoCall
    /\ last' = Call("async", "get", <<>>, <<>>,
                    Brightness_get(sysfs, device, overflow_checks))
    /\ UNCHANGED <<target, device, sysfs, overflow_checks, enum_vars, panel>>

BlockingSet ==
    /\ target = "linux"
    /\ last = NoCall
    /\ \E percentage \in Percentages, env \in Envs :
        LET r == BlockingDeviceImpl_set(sysfs, device, percentage, env, overflow_checks)
        IN  /\ last' = Call("blocking", "set", percentage, env, r)
            /\ sysfs' = logind_SetBrightness(r.fs, env, r.effects)
            /\ UNCHANGED <<target, device, overflow_checks, enum_vars, panel>>

AsyncSet ==
    /\ target = "linux"
    /\ last = NoCall
    /\ \E percentage \in Percentages, env \in Envs :
        LET r == Brightness_set(sysfs, device, percentage, env, overflow_checks)
        IN  /\ last' = Call("async", "set", percentage, env, r)
            /\ sysfs' = logind_SetBrightness(r.fs, env, r.effects)
            /\ UNCHANGED <<target, device, overflow_checks, enum_vars, panel>>

\* the caller takes the result of the call
Return ==
    /\ target = "linux"
    /\ last # NoCall
    /\ last' = NoCall
    /\ UNCHANGED <<target, device, sysfs, overflow_checks, enum_vars, panel>>

\* the kernel reports another actual brightness
BacklightChange ==
    /\ target = "linux"
    /\ last = NoCall
    /\ \E actual \in ActualFiles :
          /\ actual # sysfs[device].actual_brightness
          /\ sysfs' = [sysfs EXCEPT ![device].actual_brightness = actual]
    /\ UNCHANGED <<target, device, overflow_checks, last, enum_vars, panel>>

LinuxNext ==
    BlockingGet \/ AsyncGet \/ BlockingSet \/ AsyncSet \/ Return \/ BacklightChange

LinuxSpec == LinuxInit /\ [][LinuxNext]_vars

(***************************************************************************)
(* Enumeration on Windows: brightness_devices returns a lazy iterator; one *)
(* step of it runs the closure for the next logical monitor and hands the  *)
(* items to the caller, who owns the devices until dropping them.          *)
(***************************************************************************)
EnumInit ==
    /\ target = "windows"
    /\ LinuxIdle
    /\ PanelIdle
    /\ os \in OsStates
    /\ call = NoListing
    /\ live = {}
    /\ acquired = {}
    /\ releases = <<>>

Listing(api, phase, pending, device_info_map, items) ==
    [api |-> api, phase |-> phase, pending |-> pending,
     device_info_map |-> device_info_map, items |-> items]
Item(hmonitor, result) == [hmonitor |-> hmonitor, result |-> result]

\* brightness_devices of src/blocking/windows.rs up to the iterator it returns,
\* behind brightness_devices of src/blocking/mod.rs
blocking_brightness_devices(os_) ==
    LET device_info_map == get_device_info_map(os_)
        hmonitors == enum_display_monitors(os_)
    IN  IF device_info_map.tag # "Ok"
        THEN Listing("blocking", "done", <<>>, <<>>,
                     <<Item(0, Err(Windows_Error_from(device_info_map.error)))>>)
        ELSE IF hmonitors.tag # "Ok"
        THEN Listing("blocking", "done", <<>>, <<>>,
                     <<Item(0, Err(Windows_Error_from(hmonitors.error)))>>)
        ELSE Listing("blocking", "iterating", hmonitors.value,
                     device_info_map.value, <<>>)

\* brightness_devices of src/windows.rs up to the iterator, behind
\* brightness_devices of src/lib.rs
async_brightness_devices(os_) ==
    IF ~os_.enum_monitors_ok
    THEN Listing("async", "done", <<>>, <<>>,
                 <<Item(0, Err(Async_Windows_Error_from(
                                  [type |-> "EnumDisplayMonitorsFailed"])))>>)
    ELSE Listing("async", "iterating", [m \in 1..Len(os_.monitors) |-> m], <<>>, <<>>)

\* r.map(BrightnessDevice).map_err(Into::into) on the items of one monitor
facade_items(hmonitor, items, api) ==
    [i \in 1..Len(items) |->
        Item(hmonitor, IF items[i].tag = "Ok" THEN items[i]
                       ELSE Err(Error_from(api, items[i].error)))]

Devices(items) == {items[i].value : i \in {j \in 1..Len(items) : items[j].tag = "Ok"}}

\* the caller has dropped every device of an earlier listing before listing again
BlockingListDevices ==
    /\ target = "windows"
    /\ call.phase # "iterating"
    /\ live = {}
    /\ call' = blocking_brightness_devices(os)
    /\ acquired' = {}
    /\ releases' = <<>>
    /\ UNCHANGED <<target, linux_vars, panel, os, live>>

AsyncListDevices ==
    /\ target = "windows"
    /\ call.phase # "iterating"
    /\ live = {}
    /\ call' = async_brightness_devices(os)
    /\ acquired' = {}
    /\ releases' = <<>>
    /\ UNCHANGED <<target, linux_vars, panel, os, live>>

\* a step that puts the monitor back at the end of the list and yields nothing
advance_revisiting(produced, api) ==
    /\ call' = [call EXCEPT !.pending = Tail(call.pending) \o <<call.pending[1]>>]
    /\ UNCHANGED <<target, linux_vars, panel, os, live, acquired, releases>>

Advance(produced, api) ==
    LET hmonitor == call.pending[1]
        pending == Tail(call.pending)
    IN  /\ call' = [call EXCEPT
                       !.pending = pending,
                       !.phase = IF pending = <<>> THEN "done" ELSE "iterating",
                       !.items = @ \o facade_items(hmonitor, produced.items, api)]
        /\ live' = live \cup Devices(produced.items)
        /\ acquired' = acquired \cup produced.acquired
        /\ releases' = releases \o produced.released
        /\ UNCHANGED <<target, linux_vars, panel, os>>

BlockingAdvance ==
    /\ target = "windows"
    /\ call.phase = "iterating"
    /\ call.api = "blocking"
    /\ Advance(blocking_monitor(os, call.device_info_map, call.pending[1]),
               "blocking")

AsyncAdvance ==
    /\ target = "windows"
    /\ call.phase = "iterating"
    /\ call.api = "async"
    /\ Advance(async_monitor(os, call.pending[1]), "async")

\* the caller drops the iterator before its end
AbandonIterator ==
    /\ target = "windows"
    /\ call.phase = "iterating"
    /\ call' = [call EXCEPT !.phase = "abandoned"]
    /\ UNCHANGED <<target, linux_vars, panel, os, live, acquired, releases>>

\* Drop of a device: its fields in declaration order
drop_device(d) == <<d.physical_monitor, d.file_handle>>

DropDevice ==
    /\ target = "windows"
    /\ \E d \in live :
          /\ live' = live \ {d}
          /\ releases' = releases \o drop_device(d)
    /\ UNCHANGED <<target, linux_vars, panel, os, call, acquired>>

EnumNext ==
    \/ BlockingListDevices \/ AsyncListDevices
    \/ BlockingAdvance \/ AsyncAdvance
    \/ AbandonIterator \/ DropDevice

EnumSpec == EnumInit /\ [][EnumNext]_vars

(***************************************************************************)
(* Enumeration on Linux: brightness_devices walks the backlight directory; *)
(* one step of the iterator it returns takes the next directory entry.     *)
(***************************************************************************)
MaxEntries == 2

EIO == "EIO"
ENOENT == "ENOENT"

\* the names the entries of the backlight directory bear, by position
EntryNames == <<"intel_backlight", "acpi_video0", "amdgpu_bl0", "nvidia_0">>

\* a directory entry as read_dir yields it: its file name, whether the name
\* is valid Unicode, and the attribute files below it
DirEntry(k, unicode, attributes) ==
    [file_name |-> [name |-> EntryNames[k], unicode |-> unicode],
     attributes |-> attributes]

\* what the iterator of read_dir may yield at position k
DirItems(k) ==
    {Err(EIO)} \cup
    {Ok(DirEntry(k, unicode, attributes)) :
        unicode \in BOOLEAN,
        attributes \in SUBSET {"actual_brightness", "max_brightness"}}

\* fs::read_dir(BACKLIGHT_DIR): an error, or the entries in listing order
BacklightDirs ==
    {Err(ENOENT)} \cup
    UNION {{Ok(entries) : entries \in
               {s \in [1..n -> UNION {DirItems(k) : k \in 1..n}] :
                   \A k \in 1..n : s[k] \in DirItems(k)}} : n \in 0..MaxEntries}

\* path.join(attribute).exists()
exists(entry, attribute) == attribute \in entry.attributes

\* OsString::into_string().ok()
into_string_ok(file_name) ==
    IF file_name.unicode THEN Some(file_name.name) ELSE None

\* a closure that keeps an entry holding either attribute
linux_dir_entry_keeping_either(device_) ==
    IF device_.tag = "Err"
    THEN <<Err([type |-> "ReadingBacklightDirFailed", source |-> device_.error])>>
    ELSE LET entry == device_.value
             keep == exists(entry, "actual_brightness") \/ exists(entry, "max_brightness")
             name == into_string_ok(entry.file_name)
         IN  IF name.some /\ keep THEN <<Ok([device |-> name.value])>> ELSE <<>>

\* the closure mapped over the entries in brightness_devices of
\* src/blocking/linux.rs, followed by filter_map(Result::transpose): the
\* items one entry contributes
linux_dir_entry(device_) ==
    IF device_.tag = "Err"
    THEN <<Err([type |-> "ReadingBacklightDirFailed", source |-> device_.error])>>
    ELSE LET entry == device_.value
             keep == exists(entry, "actual_brightness") /\ exists(entry, "max_brightness")
             name == into_string_ok(entry.file_name)
         IN  IF name.some /\ keep THEN <<Ok([device |-> name.value])>> ELSE <<>>

\* the same closure in brightness_devices of src/linux.rs
async_linux_dir_entry(device_) ==
    IF device_.tag = "Err"
    THEN <<Err([type |-> "ReadingBacklightDirFailed", source |-> device_.error])>>
    ELSE LET entry == device_.value
             keep == exists(entry, "actual_brightness") /\ exists(entry, "max_brightness")
             name == into_string_ok(entry.file_name)
         IN  IF name.some /\ keep THEN <<Ok([device |-> name.value])>> ELSE <<>>

\* r.map(BrightnessDevice).map_err(Into::into) on the items of one entry
linux_facade_items(k, items) ==
    [i \in 1..Len(items) |->
        Item(k, IF items[i].tag = "Ok" THEN items[i]
                ELSE Err(Linux_Error_from(items[i].error)))]

\* brightness_devices up to the iterator it returns, behind the facade
linux_brightness_devices(api, dir) ==
    IF dir.tag = "Ok"
    THEN Listing(api, IF dir.value = <<>> THEN "done" ELSE "iterating",
                 [k \in 1..Len(dir.value) |-> k], <<>>, <<>>)
    ELSE Listing(api, "done", <<>>, <<>>,
                 linux_facade_items(0, <<Err([type |-> "ReadingBacklightDirFailed",
                                              source |-> dir.error])>>))

LinuxEnumInit ==
    /\ target = "linux enumeration"
    /\ LinuxIdle
    /\ PanelIdle
    /\ os \in BacklightDirs
    /\ call = NoListing
    /\ live = {}
    /\ acquired = {}
    /\ releases = <<>>

LinuxBlockingListDevices ==
    /\ target = "linux enumeration"
    /\ call.phase # "iterating"
    /\ call' = linux_brightness_devices("blocking", os)
    /\ UNCHANGED <<target, linux_vars, panel, os, live, acquired, releases>>

LinuxAsyncListDevices ==
    /\ target = "linux enumeration"
    /\ call.phase # "iterating"
    /\ call' = linux_brightness_devices("async", os)
    /\ UNCHANGED <<target, linux_vars, panel, os, live, acquired, releases>>

LinuxAdvance(items) ==
    LET k == call.pending[1]
        pending == Tail(call.pending)
    IN  /\ call' = [call EXCEPT
                       !.pending = pending,
                       !.phase = IF pending = <<>> THEN "done" ELSE "iterating",
                       !.items = @ \o linux_facade_items(k, items)]
        /\ UNCHANGED <<target, linux_vars, panel, os, live, acquired, releases>>

LinuxBlockingAdvance ==
    /\ target = "linux enumeration"
    /\ call.phase = "iterating"
    /\ call.api = "blocking"
    /\ LinuxAdvance(linux_dir_entry(os.value[call.pending[1]]))

LinuxAsyncAdvance ==
    /\ target = "linux enumeration"
    /\ call.phase = "iterating"
    /\ call.api = "async"
    /\ LinuxAdvance(async_linux_dir_entry(os.value[call.pending[1]]))

LinuxEnumNext ==
    \/ LinuxBlockingListDevices \/ LinuxAsyncListDevices
    \/ LinuxBlockingAdvance \/ LinuxAsyncAdvance

LinuxEnumSpec == LinuxEnumInit /\ [][LinuxEnumNext]_vars

(***************************************************************************)
(* Control on Windows: get and set on one device of the enumeration.       *)
(***************************************************************************)
ControlInit ==
    /\ target = "windows control"
    /\ panel \in Panels
    /\ device = WindowsDevice(panel.kind)
    /\ sysfs = [d \in DeviceNames |-> DefaultAttributes]
    /\ overflow_checks \in BOOLEAN
    /\ last = NoCall
    /\ EnumIdle

WindowsCall(api, op, percentage, fault, r) ==
    /\ last' = Call(api, op, percentage, [fault |-> fault, panel |-> panel], r)
    /\ panel' = r.hw
    /\ UNCHANGED <<target, device, sysfs, overflow_checks, enum_vars>>

WindowsBlockingGet ==
    /\ target = "windows control"
    /\ last = NoCall
    /\ \E fault \in Faults :
          WindowsCall("blocking", "get", <<>>, fault,
                      Windows_BlockingDeviceImpl_get(device, panel, fault, overflow_checks))

WindowsAsyncGet ==
    /\ target = "windows control"
    /\ last = NoCall
    /\ \E fault \in Faults :
          WindowsCall("async", "get", <<>>, fault,
                      Windows_Brightness_get(device, panel, fault, overflow_checks))

WindowsBlockingSet ==
    /\ target = "windows control"
    /\ last = NoCall
    /\ \E fault \in Faults, percentage \in Percentages :
          WindowsCall("blocking", "set", percentage, fault,
                      Windows_BlockingDeviceImpl_set(device, panel, fault, percentage,
                                                     overflow_checks))

WindowsAsyncSet ==
    /\ target = "windows control"
    /\ last = NoCall
    /\ \E fault \in Faults, percentage \in Percentages :
          WindowsCall("async", "set", percentage, fault,
                      Windows_Brightness_set(device, panel, fault, percentage,
                                             overflow_checks))

\* the caller takes the result of the call
WindowsReturn ==
    /\ target = "windows control"
    /\ last # NoCall
    /\ last' = NoCall
    /\ UNCHANGED <<target, device, sysfs, overflow_checks, enum_vars, panel>>

\* the machine changes between mains and battery power
PowerChange ==
    /\ target = "windows control"
    /\ last = NoCall
    /\ panel.kind = "internal"
    /\ \E policy \in Policies :
          /\ policy # panel.policy
          /\ panel' = [panel EXCEPT !.policy = policy]
    /\ UNCHANGED <<target, linux_vars, enum_vars>>

ControlNext ==
    \/ WindowsBlockingGet \/ WindowsAsyncGet
    \/ WindowsBlockingSet \/ WindowsAsyncSet
    \/ WindowsReturn \/ PowerChange

ControlSpec == ControlInit /\ [][ControlNext]_vars

Init == LinuxInit \/ EnumInit \/ LinuxEnumInit \/ ControlInit

Next == LinuxNext \/ EnumNext \/ LinuxEnumNext \/ ControlNext

Spec == Init /\ [][Next]_vars

(***************************************************************************)
(* Properties of set and get on Linux.                                     *)
(***************************************************************************)
EffectsOf(op) == {i \in 1..Len(last.effects) : last.effects[i].op = op}
LinuxSet == target = "linux" /\ last.op = "set"
ServiceCalled == EffectsOf("call") # {}
MethodNotFound ==
    /\ last.env.response.tag = "Err"
    /\ last.env.response.error.variant = "MethodError"
    /\ last.env.response.error.name = UnknownMethod
SettingFailedFor(result, name) ==
    /\ result.tag = "Err"
    /\ result.error.kind = "SettingBrightnessFailed"
    /\ result.error.device = name
BrightnessPath == <<BACKLIGHT_DIR, device, "brightness">>
\* the maximum the device reports, where it reports one
ReportedMax == parse_u32(trim(sysfs[device].max_brightness.content))
ReportedActual == parse_u32(trim(sysfs[device].actual_brightness.content))
MaxReported == sysfs[device].max_brightness.readable /\ ReportedMax.tag = "Ok"
ActualReported == sysfs[device].actual_brightness.readable /\ ReportedActual.tag = "Ok"

\* C1: a set on Linux whose service call failed for another reason than
\* "method not found" writes nothing to the brightness attribute and returns
\* SettingBrightnessFailed carrying the device name.
C1_OtherFailuresPropagate ==
    (LinuxSet /\ ServiceCalled /\ last.env.response.tag = "Err" /\ ~MethodNotFound)
        => /\ EffectsOf("write") = {}
           /\ SettingFailedFor(last.result, device)

\* C2: a set on Linux whose service call failed with "method not found" is
\* followed by exactly one write, of the raw value of the call, to the brightness
\* attribute of the device; it returns Ok exactly when the write succeeds and
\* SettingBrightnessFailed carrying the device name otherwise.
C2_FallbackWritesOnce ==
    (LinuxSet /\ ServiceCalled /\ MethodNotFound)
        => \E c \in EffectsOf("call"), w \in EffectsOf("write") :
              /\ EffectsOf("write") = {w}
              /\ c < w
              /\ last.effects[w].path = BrightnessPath
              /\ last.effects[w].data = to_string(last.effects[c].body[3])
              /\ (last.result = Ok(<<>>)) <=> sysfs[device].brightness.writable
              /\ sysfs[device].brightness.writable
                    => sysfs[device].brightness.content = last.effects[w].data
              /\ ~sysfs[device].brightness.writable
                    => SettingFailedFor(last.result, device)

C2_Witness ==
    /\ LinuxSet /\ ServiceCalled /\ MethodNotFound
    /\ EffectsOf("write") # {}
    /\ ~sysfs[device].brightness.writable
    /\ SettingFailedFor(last.result, device)

\* C3: a set on Linux writes to the attribute only after the service call of the
\* same set was issued and failed; when the service call succeeds the set
\* returns Ok and writes nothing.
C3_ServiceFirst ==
    LinuxSet
        => /\ \A w \in EffectsOf("write") :
                 /\ \E c \in EffectsOf("call") : c < w
                 /\ last.env.response.tag = "Err"
           /\ (ServiceCalled /\ last.env.response.tag = "Ok")
                 => (last.result = Ok(<<>>) /\ EffectsOf("write") = {})

C3_Witness ==
    /\ LinuxSet
    /\ \E w \in EffectsOf("write"), c \in EffectsOf("call") : c < w
    /\ last.result = Ok(<<>>)

\* C6: a get on Linux of a device reporting (actual, max) returns 0 for max = 0
\* and floor(actual * 100 / max) otherwise, the product taken without overflow
\* (stated where the quotient is a 32-bit value).
C6_GetIsFloor ==
    (target = "linux" /\ last.op = "get" /\ MaxReported /\ ActualReported)
        => LET exact == BigDiv(BigMulSmall(ReportedActual.value, 100), ReportedMax.value)
           IN  IF ReportedMax.value = <<>> THEN last.result = Ok(<<>>)
               ELSE FitsU32(exact) => last.result = Ok(exact)

\* C7: a set on Linux of percentage p on a device reporting max sends and writes
\* floor(min(p, 100) * max / 100), a value of at most max, and the computation
\* overflows for no 32-bit max.
C7_DesiredValue ==
    (LinuxSet /\ MaxReported)
        => LET expected == BigDiv(BigMul(Min(last.percentage, <<100>>),
                                         ReportedMax.value), <<100>>)
           IN  /\ last.result.tag # "Panic"
               /\ BigLe(expected, ReportedMax.value)
               /\ (last.env.connect.tag = "Ok") => ServiceCalled
               /\ \A c \in EffectsOf("call") : last.effects[c].body[3] = expected
               /\ \A w \in EffectsOf("write") : last.effects[w].data = to_string(expected)

C7_Witness ==
    /\ LinuxSet /\ ServiceCalled
    /\ last.percentage = U32Max
    /\ ReportedMax = Ok(U32Max)
    /\ \E w \in EffectsOf("write") : last.effects[w].data = to_string(U32Max)

(***************************************************************************)
(* Properties of the enumeration on Windows.                               *)
(***************************************************************************)
Monitors == 1..Len(os.monitors)
\* the closure has run for logical monitor m
Processed(m) ==
    /\ call.api # "none"
    /\ m \notin Range(call.pending)
    /\ \A n \in 1..Len(call.items) : call.items[n].hmonitor # 0
MonitorItems(m) == SelectSeq(call.items, LAMBDA item : item.hmonitor = m)
ActiveIndexes(m) ==
    {k \in 1..Len(os.monitors[m].records) : os.monitors[m].records[k].active}
\* the position among all records of the i-th active record
NthActive(m, i) ==
    CHOOSE k \in ActiveIndexes(m) : Cardinality({j \in ActiveIndexes(m) : j <= k}) = i
IsMismatch(item) ==
    /\ item.result.tag = "Err"
    /\ item.result.error.kind = "ListingDevicesFailed"
    /\ item.result.error.source.type = "EnumerationMismatch"

\* C8: a logical monitor whose number of physical-monitor handles differs from
\* its number of active display-device records contributes exactly one
\* EnumerationMismatch error (a ListingDevicesFailed) and no device; a monitor
\* whose two lists have equal length contributes no such error.
C8_MismatchIsOneError ==
    \A m \in Monitors :
        (Processed(m) /\ os.monitors[m].fail = "none")
            => IF os.monitors[m].physical # Cardinality(ActiveIndexes(m))
               THEN Len(MonitorItems(m)) = 1 /\ IsMismatch(MonitorItems(m)[1])
               ELSE \A n \in 1..Len(MonitorItems(m)) : ~IsMismatch(MonitorItems(m)[n])

\* C9: every device the blocking enumeration emits combines the physical-monitor
\* handle at an index i of its logical monitor with the name, description, key,
\* path, control handle and classification of the active display-device record
\* at the same index i, also after earlier pairs of the monitor were skipped.
C9_PairedByIndex ==
    call.api = "blocking"
        => \A n \in 1..Len(call.items) :
              call.items[n].result.tag = "Ok"
                 => LET d == call.items[n].result.value
                        m == call.items[n].hmonitor
                    IN  \E i \in 1..os.monitors[m].physical :
                           /\ i <= Cardinality(ActiveIndexes(m))
                           /\ d.physical_monitor = PhysicalHandle(m, i)
                           /\ Wide(d.device_name) = DeviceName(m, NthActive(m, i))
                           /\ Wide(d.device_description) = DeviceString(m, NthActive(m, i))
                           /\ Wide(d.device_key) = DeviceKey(m, NthActive(m, i))
                           /\ Wide(d.device_path) = DeviceID(m, NthActive(m, i))
                           /\ d.file_handle = FileHandle(DeviceID(m, NthActive(m, i)))
                           /\ d.output_technology =
                                 os.monitors[m].records[NthActive(m, i)].config

\* a device of the second pair of a monitor whose first pair was skipped
C9_Witness ==
    /\ call.api = "blocking"
    /\ \E n \in 1..Len(call.items) :
          /\ call.items[n].result.tag = "Ok"
          /\ call.items[n].result.value.physical_monitor.index = 2
          /\ os.monitors[call.items[n].hmonitor].records[1].open = ERROR_ACCESS_DENIED

HandlesOf(d) == {d.physical_monitor, d.file_handle}
Owners(h) == {d \in live : h \in HandlesOf(d)}
Releases(h) == {i \in 1..Len(releases) : releases[i] = h}

\* C10: every handle obtained during an enumeration is owned by exactly one live
\* device and not released, or owned by none and released exactly once; nothing
\* else is owned or released.
C10_HandleOwnership ==
    /\ \A h \in acquired :
          \/ Cardinality(Owners(h)) = 1 /\ Releases(h) = {}
          \/ Owners(h) = {} /\ Cardinality(Releases(h)) = 1
    /\ \A d \in live : HandlesOf(d) \subseteq acquired
    /\ Range(releases) \subseteq acquired

\* a listing that skipped a pair, failed to open another, and whose device was dropped
C10_Witness ==
    /\ call.phase \in {"done", "abandoned"}
    /\ live = {}
    /\ Cardinality(acquired) >= 3
    /\ \E n \in 1..Len(call.items) : call.items[n].result.tag = "Ok"
    /\ \E m \in Monitors :
          /\ Processed(m)
          /\ os.monitors[m].fail = "none"
          /\ \E k \in ActiveIndexes(m) : os.monitors[m].records[k].open # ERROR_SUCCESS

\* the records the enumeration zips with the physical monitors of m
PairedIndexes(m) ==
    IF call.api = "blocking" THEN ActiveIndexes(m) ELSE 1..Len(os.monitors[m].records)
\* every step before the zip succeeded for m and the two lists have one length
Correlated(m) ==
    /\ Processed(m)
    /\ os.monitors[m].fail = "none"
    /\ Cardinality(PairedIndexes(m)) = os.monitors[m].physical
IsOpenError(item) ==
    /\ item.result.tag = "Err"
    /\ item.result.error.kind = "ListingDevicesFailed"
    /\ item.result.error.source.type = "OpeningMonitorDeviceInterfaceHandleFailed"
\* the item is the device or the open error of record k of monitor m
ConcernsRecord(item, m, k) ==
    \/ item.result.tag = "Ok" /\ Wide(item.result.value.device_name) = DeviceName(m, k)
    \/ IsOpenError(item)
          /\ Wide(item.result.error.source.device_name) = DeviceName(m, k)
ItemsOfRecord(m, k) ==
    {n \in 1..Len(MonitorItems(m)) : ConcernsRecord(MonitorItems(m)[n], m, k)}
OpenOf(m, k) == os.monitors[m].records[k].open

\* C11: for a correlated pair whose control handle cannot be opened: when the
\* open is denied access the pair gives no item at all, neither a device nor an
\* error; when it fails otherwise the pair gives exactly one item, the error
\* OpeningMonitorDeviceInterfaceHandleFailed as a ListingDevicesFailed, and no
\* device.  The monitor has one item for each pair not denied access.
C11_OpenFailures ==
    \A m \in Monitors :
        Correlated(m)
            => /\ \A k \in PairedIndexes(m) :
                     /\ OpenOf(m, k) = ERROR_ACCESS_DENIED => ItemsOfRecord(m, k) = {}
                     /\ OpenOf(m, k) \notin {ERROR_SUCCESS, ERROR_ACCESS_DENIED}
                           => /\ Cardinality(ItemsOfRecord(m, k)) = 1
                              /\ \A n \in ItemsOfRecord(m, k) :
                                    IsOpenError(MonitorItems(m)[n])
               /\ Len(MonitorItems(m)) =
                     Cardinality({k \in PairedIndexes(m) :
                                     OpenOf(m, k) # ERROR_ACCESS_DENIED})

\* a monitor with one pair denied access and another pair failing to open
C11_Witness ==
    \E m \in Monitors :
        /\ Correlated(m)
        /\ \E k \in PairedIndexes(m) : OpenOf(m, k) = ERROR_ACCESS_DENIED
        /\ \E k \in PairedIndexes(m) : OpenOf(m, k) = ERROR_GEN_FAILURE
        /\ Len(MonitorItems(m)) = 1

\* every enumeration step succeeds for logical monitor m
GoodMonitor(m) ==
    /\ os.monitors[m].fail = "none"
    /\ Len(os.monitors[m].records) = os.monitors[m].physical
    /\ \A k \in 1..Len(os.monitors[m].records) :
          /\ os.monitors[m].records[k].active
          /\ OpenOf(m, k) = ERROR_SUCCESS
          /\ os.monitors[m].records[k].config \in
                {"HDMI", DISPLAYCONFIG_OUTPUT_TECHNOLOGY_INTERNAL}
DevicesOf(m) ==
    {n \in 1..Len(call.items) :
        call.items[n].hmonitor = m /\ call.items[n].result.tag = "Ok"}

\* C12: when a list_devices call has run to its end, every logical monitor for
\* which all steps succeed has all its devices in the result, whatever step
\* failed for another logical monitor (the monitor list and the display
\* configuration as a whole being available).
C12_FailureIsPerMonitor ==
    (call.phase = "done" /\ os.enum_monitors_ok /\ os.config = "ok")
        => \A m \in Monitors :
              GoodMonitor(m) => Cardinality(DevicesOf(m)) = os.monitors[m].physical

ErrorsOf(m) ==
    {n \in 1..Len(call.items) :
        call.items[n].hmonitor = m /\ call.items[n].result.tag = "Err"}

\* C13: no partial device list for a failed logical monitor: a logical monitor
\* that has an error among its items, from a step for the whole monitor or from
\* one of its pairs (control handle not opened, technology not known), has no
\* device among them.
C13_NoPartialList ==
    \A m \in Monitors : (Processed(m) /\ ErrorsOf(m) # {}) => DevicesOf(m) = {}

(***************************************************************************)
(* Properties of set and get across the backends.                          *)
(***************************************************************************)
\* the effects of the last set, had it been asked for percentage
EffectsOfSetWith(percentage) ==
    IF target = "linux"
    THEN (IF last.api = "blocking"
          THEN BlockingDeviceImpl_set(sysfs, device, percentage, last.env,
                                      overflow_checks).effects
          ELSE Brightness_set(sysfs, device, percentage, last.env,
                              overflow_checks).effects)
    ELSE (IF last.api = "blocking"
          THEN Windows_BlockingDeviceImpl_set(device, last.env.panel, last.env.fault,
                                              percentage, overflow_checks).effects
          ELSE Windows_Brightness_set(device, last.env.panel, last.env.fault,
                                      percentage, overflow_checks).effects)

\* C4: on every backend and protocol path a set of percentage p computes with
\* min(p, 100): what it sends or writes is what a set of min(p, 100) sends or
\* writes.
C4_SetClamps ==
    (target \in {"linux", "windows control"} /\ last.op = "set")
        => last.effects = EffectsOfSetWith(Min(last.percentage, <<100>>))

\* C5: a successful get returns a value from 0 to 100, whatever raw state the
\* file system or the OS reports.
C5_GetWithinRange ==
    (last.op = "get" /\ last.result.tag = "Ok") => BigLe(last.result.value, <<100>>)

(***************************************************************************)
(* Properties of get and set on Windows.                                   *)
(***************************************************************************)
WindowsOp == target = "windows control" /\ last.op \in {"get", "set"}
IoctlCalls == EffectsOf("DeviceIoControl")
DdcciCalls == EffectsOf("GetMonitorBrightness") \cup EffectsOf("SetMonitorBrightness")

\* C14: a get or set on a device classified internal issues only DeviceIoControl
\* calls, all on its file handle, and no DDC/CI call; a get or set on a device
\* classified external issues only DDC/CI calls, all on its physical-monitor
\* handle, and no DeviceIoControl call; no call uses both protocols.
C14_ProtocolByClassification ==
    WindowsOp
        => /\ IF is_internal(device) THEN DdcciCalls = {} ELSE IoctlCalls = {}
           /\ \A i \in IoctlCalls : last.effects[i].handle = device.file_handle
           /\ \A i \in DdcciCalls : last.effects[i].handle = device.physical_monitor
           /\ IoctlCalls = {} \/ DdcciCalls = {}

InternalSet == WindowsOp /\ last.op = "set" /\ is_internal(device)
\* the levels the panel reported to the last set, and the level the set sent
ReportedLevels == last.env.panel.levels
LevelsReported ==
    /\ InternalSet
    /\ last.env.fault # "IOCTL_VIDEO_QUERY_SUPPORTED_BRIGHTNESS"
    /\ ReportedLevels # <<>>
SentLevel == last.effects[Len(last.effects)].input.ucACBrightness
Distance(level) == AbsDiff(NatToBig(level), last.percentage)

\* C15: the level an internal-panel set selects from a non-empty list of
\* supported levels is a member of the list at the least absolute distance from
\* the requested percentage, and of several members at that distance the first
\* in the order the OS returned ([0,20,50,80,100] and 60 give 50; [40,60] and 50
\* give 40; [60,40] and 50 give 60).
C15_NearestLevel ==
    LevelsReported
        => /\ \E i \in 1..Len(ReportedLevels) :
                 /\ ReportedLevels[i] = SentLevel
                 /\ \A j \in 1..Len(ReportedLevels) :
                       /\ BigLe(Distance(ReportedLevels[i]), Distance(ReportedLevels[j]))
                       /\ j < i => BigLt(Distance(ReportedLevels[i]),
                                         Distance(ReportedLevels[j]))
           /\ (ReportedLevels = <<0, 20, 50, 80, 100>> /\ last.percentage = <<60>>)
                 => SentLevel = 50
           /\ (ReportedLevels = <<40, 60>> /\ last.percentage = <<50>>) => SentLevel = 40
           /\ (ReportedLevels = <<60, 40>> /\ last.percentage = <<50>>) => SentLevel = 60

\* a request in the middle of two levels, the lower level listed first
C15_Witness ==
    /\ LevelsReported
    /\ ReportedLevels = <<40, 60>>
    /\ last.percentage = <<50>>
    /\ SentLevel = 40

\* the get the caller of the last call issues next on hardware state hw
GetAfter(hw) ==
    IF last.api = "blocking"
    THEN Windows_BlockingDeviceImpl_get(device, hw, "none", overflow_checks)
    ELSE Windows_Brightness_get(device, hw, "none", overflow_checks)
IsIoctl(effect, code) ==
    /\ effect.op = "DeviceIoControl"
    /\ effect.handle = device.file_handle
    /\ effect.code = code

\* C16: a set on an internal panel issues one query of the supported levels and
\* then, when the query succeeded, one set-brightness call whose AC field and
\* DC field hold the same level under the policy for both; after a successful
\* set a get with nothing else changed returns that level, under the AC policy
\* and under the DC policy.
C16_SetBothFields ==
    InternalSet
        => /\ Len(last.effects) \in {1, 2}
           /\ IsIoctl(last.effects[1], "IOCTL_VIDEO_QUERY_SUPPORTED_BRIGHTNESS")
           /\ Len(last.effects) = 2
                 => /\ IsIoctl(last.effects[2], "IOCTL_VIDEO_SET_DISPLAY_BRIGHTNESS")
                    /\ last.effects[2].input.ucACBrightness = SentLevel
                    /\ last.effects[2].input.ucDCBrightness = SentLevel
                    /\ last.effects[2].input.ucDisplayPolicy = DISPLAYPOLICY_BOTH
           /\ last.result.tag = "Ok"
                 => /\ Len(last.effects) = 2
                    /\ \A policy \in {DISPLAYPOLICY_AC, DISPLAYPOLICY_DC} :
                          GetAfter([panel EXCEPT !.policy = policy]).result
                             = Ok(NatToBig(SentLevel))

\* a successful set on battery power to a level neither field held before
C16_Witness ==
    /\ InternalSet
    /\ last.result.tag = "Ok"
    /\ panel.policy = DISPLAYPOLICY_DC
    /\ last.env.panel.ac # last.env.panel.dc
    /\ SentLevel \notin {last.env.panel.ac, last.env.panel.dc}
    /\ GetAfter(panel).result = Ok(NatToBig(SentLevel))

InternalGet == WindowsOp /\ last.op = "get" /\ is_internal(device)
\* the last get queried the display brightness and the OS answered the query
QueryAnswered ==
    /\ InternalGet
    /\ IsIoctl(last.effects[Len(last.effects)], "IOCTL_VIDEO_QUERY_DISPLAY_BRIGHTNESS")
    /\ last.env.fault # "IOCTL_VIDEO_QUERY_DISPLAY_BRIGHTNESS"
UnexpectedResponse ==
    /\ last.result.tag = "Err"
    /\ last.result.error.kind = "GettingDeviceInfoFailed"
    /\ last.result.error.device = device.device_name
    /\ last.result.error.source.type = "IoctlQueryDisplayBrightnessUnexpectedResponse"

\* C17: a get on an internal panel whose query call succeeds returns the AC
\* brightness field when the policy field is AC and the DC brightness field
\* when it is DC; for every other policy value it returns no brightness but the
\* unexpected-response error, a GettingDeviceInfoFailed with the device name.
C17_PolicySelectsField ==
    QueryAnswered
        => IF panel.policy = DISPLAYPOLICY_AC
           THEN last.result = Ok(NatToBig(panel.ac))
           ELSE IF panel.policy = DISPLAYPOLICY_DC
           THEN last.result = Ok(NatToBig(panel.dc))
           ELSE UnexpectedResponse

\* a get on a panel that answers with the policy for both power states
C17_Witness ==
    /\ QueryAnswered
    /\ panel.policy = DISPLAYPOLICY_BOTH
    /\ panel.ac # panel.dc
    /\ UnexpectedResponse

ExternalGet ==
    WindowsOp /\ last.op = "get" /\ ~is_internal(device) /\ last.result.tag = "Ok"
\* the monitor reports min <= current <= max and max > min
TripleInRange(hw) ==
    BigLe(hw.min, hw.current) /\ BigLe(hw.current, hw.max) /\ BigLt(hw.min, hw.max)
\* (current - min) * 100 / (max - min) to the nearest integer, halves upwards:
\* floor((200 * (current - min) + (max - min)) / (2 * (max - min)))
NearestHalfUp(hw) ==
    BigDiv(BigAdd(BigMulSmall(BigSub(hw.current, hw.min), 200), BigSub(hw.max, hw.min)),
           BigMulSmall(BigSub(hw.max, hw.min), 2))
PercentageOf(hw) ==
    get_current_percentage([min |-> hw.min, current |-> hw.current, max |-> hw.max],
                           overflow_checks)

\* C18: a get on an external monitor reporting min <= current <= max with
\* max > min returns (current - min) * 100 / (max - min) rounded to the nearest
\* integer, halves rounded up, and no lower current of the same range gives a
\* higher percentage.
C18_GetRoundsToNearest ==
    (ExternalGet /\ TripleInRange(panel))
        => /\ last.result.value = NearestHalfUp(panel)
           /\ \A c \in MonitorCurrents :
                 (BigLe(panel.min, c) /\ BigLe(c, panel.current))
                    => BigLe(PercentageOf([panel EXCEPT !.current = c]).value,
                             last.result.value)

ExternalSet == WindowsOp /\ last.op = "set" /\ ~is_internal(device)
\* the DDC/CI calls of the last call, in order
DdcciSequence ==
    SelectSeq(last.effects,
              LAMBDA e : e.op \in {"GetMonitorBrightness", "SetMonitorBrightness"})
\* the monitor as it was when the last call read it
MonitorRead == last.env.panel
RangeRead == BigSub(MonitorRead.max, MonitorRead.min)
\* the last set read the brightness and the monitor answered with max >= min
BrightnessRead ==
    /\ ExternalSet
    /\ DdcciSequence # <<>>
    /\ last.env.fault # "GetMonitorBrightness"
    /\ BigLe(MonitorRead.min, MonitorRead.max)
Written == DdcciSequence[2].input

\* C19: a set on an external monitor first reads the monitor's brightness and
\* then, the read having succeeded with max >= min, writes exactly one raw
\* value w with w - min the integer nearest to p / 100 * (max - min) for the
\* pair (min, max) of that read; for p <= 100 the value lies in [min, max].
C19_SetFromFreshRange ==
    ExternalSet
        => /\ DdcciSequence # <<>>
                 => /\ DdcciSequence[1].op = "GetMonitorBrightness"
                    /\ DdcciSequence[1].handle = device.physical_monitor
           /\ BrightnessRead
                 => /\ Len(DdcciSequence) = 2
                    /\ DdcciSequence[2].op = "SetMonitorBrightness"
                    /\ DdcciSequence[2].handle = device.physical_monitor
                    /\ BigLe(MonitorRead.min, Written)
                    /\ BigLe(AbsDiff(BigMulSmall(BigSub(Written, MonitorRead.min), 100),
                                     BigMul(last.percentage, RangeRead)),
                             <<50>>)
                    /\ BigLe(last.percentage, <<100>>) => BigLe(Written, MonitorRead.max)

\* C20: after a successful set of p on an external monitor whose range
\* max - min is at least 100, a get with nothing else changed returns a value
\* v with |v - p| <= 1.
C20_RoundTripWithinOne ==
    (ExternalSet /\ last.result.tag = "Ok"
        /\ BigLe(panel.min, panel.max) /\ BigLe(<<100>>, BigSub(panel.max, panel.min)))
        => /\ GetAfter(panel).result.tag = "Ok"
           /\ BigLe(AbsDiff(GetAfter(panel).result.value, last.percentage), <<1>>)


(***************************************************************************)
(* Properties across the backends.                                         *)
(***************************************************************************)
\* an external effect that reads or queries and changes nothing
ReadOnlyEffect(effect) ==
    \/ effect.op \in {"read", "GetMonitorBrightness"}
    \/ /\ effect.op = "DeviceIoControl"
       /\ effect.code \in {"IOCTL_VIDEO_QUERY_SUPPORTED_BRIGHTNESS",
                           "IOCTL_VIDEO_QUERY_DISPLAY_BRIGHTNESS"}

\* a step in which the caller issues get
GetStep == last = NoCall /\ last' # NoCall /\ last'.op = "get"

\* the get the caller of the last call issues next, with no OS call failing
\* and nothing changed in between
NextGet ==
    IF target = "linux"
    THEN (IF last.api = "blocking"
          THEN BlockingDeviceImpl_get(sysfs, device, overflow_checks)
          ELSE Brightness_get(sysfs, device, overflow_checks))
    ELSE GetAfter(panel)

\* C21: get is read-only and repeatable.  On every backend a get issues reads
\* and queries only (no write, no bus connection or service call, no
\* SetMonitorBrightness, no IOCTL_VIDEO_SET_DISPLAY_BRIGHTNESS), leaves the
\* device handle and the raw brightness state (the backlight files, the panel
\* or monitor) as they were, and a get that met no failure of an OS call is
\* answered the same by the get that follows it.
C21_GetIsReadOnly ==
    /\ [][GetStep => device' = device /\ sysfs' = sysfs /\ panel' = panel]_vars
    /\ [](last.op = "get" =>
             /\ \A i \in 1..Len(last.effects) : ReadOnlyEffect(last.effects[i])
             /\ (target = "linux" \/ last.env.fault = "none")
                   => NextGet.result = last.result)

\* a get on an external monitor that returned a percentage
C21_Witness ==
    /\ target = "windows control"
    /\ last.op = "get"
    /\ ~is_internal(device)
    /\ last.result.tag = "Ok"
    /\ last.effects # <<>>
    /\ panel = last.env.panel
    /\ panel.current # panel.min

\* the name of the device the last get or set was issued on
DeviceNameOf == IF target = "linux" THEN device ELSE device.device_name
\* the external call at which a failed get or set stopped
FailedAt == last.effects[Len(last.effects)]
ListingErrors ==
    {i \in 1..Len(call.items) : call.items[i].result.tag = "Err"}

\* C22: error classification.  Every error item of an enumeration (Linux and
\* Windows, blocking and async) is ListingDevicesFailed; a get or set that
\* returns an error returns GettingDeviceInfoFailed when it stopped at an
\* attribute read or a brightness or levels query, and SettingBrightnessFailed
\* when it stopped at a write, a set-type control call, the bus connection or
\* the service call, and the error carries the name of the device.
C22_ErrorKinds ==
    /\ \A i \in ListingErrors :
          call.items[i].result.error.kind = "ListingDevicesFailed"
    /\ (last # NoCall /\ last.result.tag = "Err")
          => /\ last.effects # <<>>
             /\ last.result.error.device = DeviceNameOf
             /\ last.result.error.kind =
                   IF ReadOnlyEffect(FailedAt) THEN "GettingDeviceInfoFailed"
                   ELSE "SettingBrightnessFailed"

\* a set on Linux that stopped at the read of max_brightness
C22_Witness ==
    /\ LinuxSet
    /\ last.result.tag = "Err"
    /\ last.result.error.kind = "GettingDeviceInfoFailed"
    /\ last.result.error.device = device
    /\ FailedAt.op = "read"

\* the display-device list the enumeration in progress builds for monitor m
DisplayDevicesOf(m) ==
    IF call.api = "blocking" THEN get_display_devices_from_hmonitor(os, m).value
    ELSE take_while_devices(os, m, 0)
\* the records of monitor m flagged active, in index order
ActiveRecords(m) ==
    [i \in 1..Cardinality(ActiveIndexes(m)) |-> DISPLAY_DEVICEW(os, m, NthActive(m, i))]

\* C25: the display-device list of a logical monitor holds, in index order,
\* every record below the first index without a record that is flagged active;
\* an inactive record is dropped without ending the scan, and only active
\* records count toward the length compared with the physical-monitor list,
\* in the blocking and in the async backend.
C25_ActiveRecordsListed ==
    \A m \in Monitors :
        (Processed(m) /\ os.monitors[m].fail = "none")
            => /\ DisplayDevicesOf(m) = ActiveRecords(m)
               /\ (\E n \in 1..Len(MonitorItems(m)) : IsMismatch(MonitorItems(m)[n]))
                     <=> os.monitors[m].physical # Len(ActiveRecords(m))

\* the item of monitor m that the pair of record k gave: pairs give their
\* items in index order, and a pair denied access gives none
ItemOfPair(m, k) ==
    MonitorItems(m)[Cardinality({j \in PairedIndexes(m) :
                                    j <= k /\ OpenOf(m, j) # ERROR_ACCESS_DENIED})]
IsInfoMissing(item) ==
    /\ item.result.tag = "Err"
    /\ item.result.error.kind = "ListingDevicesFailed"
    /\ item.result.error.source.type = "DeviceInfoMissing"
\* the pairs of monitor m whose control handle opened
OpenedPairs(m) == {k \in PairedIndexes(m) : OpenOf(m, k) = ERROR_SUCCESS}
InfoMapHas(m, k) == DeviceID(m, k) \in DOMAIN call.device_info_map

\* C26: in the blocking enumeration a correlated pair whose control handle
\* opened gives a device exactly when the path-to-technology map built at the
\* start of the call has an entry for the pair's device interface path, and the
\* device's classification is that entry's technology; without an entry the
\* pair gives exactly one DeviceInfoMissing error (a ListingDevicesFailed) and
\* no device.
C26_DeviceInfoLookup ==
    \A m \in Monitors :
        (call.api = "blocking" /\ Correlated(m))
            => /\ \A k \in OpenedPairs(m) :
                     IF InfoMapHas(m, k)
                     THEN /\ ItemOfPair(m, k).result.tag = "Ok"
                          /\ Wide(ItemOfPair(m, k).result.value.device_path)
                                = DeviceID(m, k)
                          /\ ItemOfPair(m, k).result.value.output_technology
                                = call.device_info_map[DeviceID(m, k)].outputTechnology
                          /\ ItemOfPair(m, k).result.value.output_technology
                                = os.monitors[m].records[k].config
                     ELSE IsInfoMissing(ItemOfPair(m, k))
               /\ Cardinality({n \in 1..Len(MonitorItems(m)) :
                                  IsInfoMissing(MonitorItems(m)[n])})
                     = Cardinality({k \in OpenedPairs(m) : ~InfoMapHas(m, k)})

\* a monitor with two opened pairs: the map lacks the path of the first and
\* classifies the second as the internal panel
C26_Witness ==
    \E m \in Monitors :
        /\ call.api = "blocking" /\ Correlated(m)
        /\ OpenedPairs(m) = {1, 2}
        /\ ~InfoMapHas(m, 1) /\ InfoMapHas(m, 2)
        /\ IsInfoMissing(MonitorItems(m)[1])
        /\ MonitorItems(m)[2].result.tag = "Ok"
        /\ is_internal(MonitorItems(m)[2].result.value)

(***************************************************************************)
(* Properties of the enumeration on Linux.                                 *)
(***************************************************************************)
\* a listing of the backlight directory that ran to its end
LinuxListed == target = "linux enumeration" /\ call.phase = "done"
DirEntries == IF os.tag = "Ok" THEN os.value ELSE <<>>
EntryIndexes == [k \in 1..Len(DirEntries) |-> k]
\* the entry at position k was read and holds both attributes
HasBoth(k) ==
    /\ DirEntries[k].tag = "Ok"
    /\ {"actual_brightness", "max_brightness"} \subseteq DirEntries[k].value.attributes
LacksOne(k) == DirEntries[k].tag = "Ok" /\ ~HasBoth(k)
HasUnicodeName(k) == DirEntries[k].value.file_name.unicode
WithBoth == SelectSeq(EntryIndexes, HasBoth)
NamedWithBoth == SelectSeq(EntryIndexes, LAMBDA k : HasBoth(k) /\ HasUnicodeName(k))
DeviceItems == SelectSeq(call.items, LAMBDA item : item.result.tag = "Ok")
ItemsOfEntry(k) == SelectSeq(call.items, LAMBDA item : item.hmonitor = k)
\* the devices listed are the entries at the positions of entries, in order
DevicesAre(entries) ==
    /\ Len(DeviceItems) = Len(entries)
    /\ \A i \in 1..Len(entries) :
          /\ DeviceItems[i].hmonitor = entries[i]
          /\ DeviceItems[i].result.value.device
                = DirEntries[entries[i]].value.file_name.name

\* C23 as stated: when the backlight directory can be listed, the devices
\* are exactly the entries holding both actual_brightness and max_brightness,
\* one device per such entry, named after it, in listing order, and an entry
\* lacking either attribute yields neither a device nor an error.
C23_DevicesAreEntries ==
    (LinuxListed /\ os.tag = "Ok")
        => /\ DevicesAre(WithBoth)
           /\ \A k \in 1..Len(DirEntries) : LacksOne(k) => ItemsOfEntry(k) = <<>>

\* C23 as amended: the devices are exactly the entries holding both attributes
\* whose name is valid Unicode, one device per such entry, named after it, in
\* listing order; an entry lacking either attribute, or bearing a name that is
\* not valid Unicode, yields neither a device nor an error.
C23_DevicesAreNamedEntries ==
    (LinuxListed /\ os.tag = "Ok")
        => /\ DevicesAre(NamedWithBoth)
           /\ \A k \in 1..Len(DirEntries) :
                 (LacksOne(k) \/ (HasBoth(k) /\ ~HasUnicodeName(k)))
                     => ItemsOfEntry(k) = <<>>

\* a listing of two entries holding both attributes, the first under a name
\* that is not valid Unicode: the second is the only device
C23_Witness ==
    /\ LinuxListed
    /\ Len(DirEntries) = 2
    /\ HasBoth(1) /\ ~HasUnicodeName(1)
    /\ HasBoth(2) /\ HasUnicodeName(2)
    /\ Len(DeviceItems) = 1
    /\ DeviceItems[1].result.value.device = EntryNames[2]

ErrorItems == SelectSeq(call.items, LAMBDA item : item.result.tag = "Err")

\* C24: a failure to list the backlight directory is reported exactly once per
\* call, as ListingDevicesFailed and with no device beside it, and no
\* ReadingBacklightDirFailed error is emitted for a directory entry: a listing
\* holds at most one error, which stands for the directory and stands alone.
C24_ListingFailureOnce ==
    LinuxListed
        => /\ os.tag = "Err"
                 => /\ Len(call.items) = 1
                    /\ call.items[1].result.tag = "Err"
                    /\ call.items[1].result.error.kind = "ListingDevicesFailed"
           /\ \A i \in 1..Len(ErrorItems) :
                 /\ ErrorItems[i].hmonitor = 0
                 /\ call.items = <<ErrorItems[i]>>

(***************************************************************************)
(* The two backends on Linux.                                              *)
(***************************************************************************)
\* a step in which the caller issues get or set on Linux
LinuxCallStep == target = "linux" /\ last = NoCall /\ last' # NoCall

\* C27: the blocking and the async backend on Linux agree.  For the device,
\* the backlight files, the service responses and the percentage of any call,
\* get and set of src/blocking/linux.rs and of src/linux.rs give the same
\* result (value or error kind and device), the same sequence of external
\* effects (attribute reads, bus connection, service call, fallback write) and
\* leave the same files, and the call through either facade returns exactly
\* that result.
C27_BackendsAgree ==
    [][LinuxCallStep =>
          IF last'.op = "get"
          THEN /\ BlockingDeviceImpl_get(sysfs, device, overflow_checks)
                     = Brightness_get(sysfs, device, overflow_checks)
               /\ last'.result
                     = BlockingDeviceImpl_get(sysfs, device, overflow_checks).result
               /\ last'.effects
                     = BlockingDeviceImpl_get(sysfs, device, overflow_checks).effects
          ELSE /\ BlockingDeviceImpl_set(sysfs, device, last'.percentage, last'.env,
                                         overflow_checks)
                     = Brightness_set(sysfs, device, last'.percentage, last'.env,
                                      overflow_checks)
               /\ last'.result
                     = Brightness_set(sysfs, device, last'.percentage, last'.env,
                                      overflow_checks).result
               /\ last'.effects
                     = Brightness_set(sysfs, device, last'.percentage, last'.env,
                                      overflow_checks).effects]_vars

\* a set through the async backend that fell back to the write after the
\* service refused the method
C27_Witness ==
    /\ LinuxSet
    /\ last.api = "async"
    /\ ServiceCalled
    /\ EffectsOf("write") # {}
    /\ last.result.tag = "Ok"

(***************************************************************************)
(* Termination.  The caller of brightness_devices keeps taking items from  *)
(* the iterator (or stream) until it ends or the caller drops it.          *)
(***************************************************************************)
\* a step that takes the next item group from the iterator
TakeNext ==
    \/ BlockingAdvance \/ AsyncAdvance
    \/ LinuxBlockingAdvance \/ LinuxAsyncAdvance

\* weak fairness of TakeNext, with ENABLED <<TakeNext>>_vars written out: the
\* step is enabled exactly while an iterator is in progress
FairSpec ==
    /\ Spec
    /\ ([]<>(call.phase # "iterating") \/ []<><<TakeNext>>_vars)

Iterating == call.phase = "iterating"
\* the external calls of the last get or set
ExternalCalls == IF last = NoCall THEN 0 ELSE Len(last.effects)

\* C28: list_devices terminates with a finite sequence, and get and set issue
\* a bounded number of external calls.  An enumeration in progress comes to
\* its end (or is dropped by the caller); every step of it takes one logical
\* monitor (one directory entry on Linux) off the finite list still to visit
\* and adds at most one item per physical monitor, or one error; and no get or
\* set issues more than four external calls.
C28_Terminates ==
    /\ Iterating ~> ~Iterating
    /\ [][(Iterating /\ call' # call) =>
             \/ call'.phase = "abandoned"
             \/ /\ call'.pending = Tail(call.pending)
                /\ Len(call'.items) - Len(call.items)
                      <= (IF target = "windows" /\ os.monitors[call.pending[1]].physical > 1
                          THEN os.monitors[call.pending[1]].physical ELSE 1)]_vars
    /\ [](ExternalCalls <= 4)

\* a listing of two logical monitors that ran to its end with three items
C28_Witness ==
    /\ target = "windows"
    /\ call.phase = "done"
    /\ Len(os.monitors) = 2
    /\ Len(call.items) = 3

(***************************************************************************)
(* Failures of set before its write stage.                                 *)
(***************************************************************************)
WindowsSet == WindowsOp /\ last.op = "set"
\* the supported-levels query of an internal panel, or the read of the range
\* of an external monitor, fails in the last set
QueryFault ==
    \/ /\ last.env.panel.kind = "internal"
       /\ last.env.fault = "IOCTL_VIDEO_QUERY_SUPPORTED_BRIGHTNESS"
    \/ /\ last.env.panel.kind = "external"
       /\ last.env.fault = "GetMonitorBrightness"
SetCalls ==
    EffectsOf("SetMonitorBrightness")
        \cup {i \in IoctlCalls : last.effects[i].code = "IOCTL_VIDEO_SET_DISPLAY_BRIGHTNESS"}
GettingFailed ==
    /\ last.result.tag = "Err"
    /\ last.result.error.kind = "GettingDeviceInfoFailed"

\* C29: a set that fails before its write stage changes nothing.  On Linux,
\* when max_brightness cannot be read or parsed, or the bus connection cannot
\* be opened, no service call and no attribute write is issued and the
\* backlight files stay as they were; on Windows, when the supported-levels
\* query of an internal panel or the read of the range of an external monitor
\* fails, no set-brightness call is issued and the hardware stays as it was.
\* The failed read or query is reported as GettingDeviceInfoFailed.
C29_EarlyFailureChangesNothing ==
    /\ []((LinuxSet /\ (~MaxReported \/ last.env.connect.tag # "Ok"))
            => /\ EffectsOf("call") = {}
               /\ EffectsOf("write") = {}
               /\ last.result.tag = "Err"
               /\ ~MaxReported => (GettingFailed /\ EffectsOf("connect") = {}))
    /\ [][(LinuxCallStep /\ last'.op = "set"
              /\ (~MaxReported \/ last'.env.connect.tag # "Ok"))
             => sysfs' = sysfs]_vars
    /\ []((WindowsSet /\ QueryFault)
            => /\ SetCalls = {}
               /\ panel = last.env.panel
               /\ GettingFailed)

\* a set on an external monitor whose range cannot be read
C29_Witness ==
    /\ WindowsSet
    /\ last.env.panel.kind = "external"
    /\ last.env.fault = "GetMonitorBrightness"
    /\ Len(last.effects) = 1
    /\ GettingFailed

\* the panel answered the supported-levels query of the last set with no level
NoLevelsReported ==
    /\ InternalSet
    /\ last.env.fault # "IOCTL_VIDEO_QUERY_SUPPORTED_BRIGHTNESS"
    /\ ReportedLevels = <<>>

\* C30: when the supported-levels query of an internal panel succeeds with an
\* empty list, set(p) selects level 0 for every p and issues the set-brightness
\* call with AC = DC = 0: it neither returns an error for the empty list nor
\* leaves the brightness as it was, and an accepted call puts the panel at 0.
C30_EmptyLevelsSetZero ==
    NoLevelsReported
        => /\ Len(last.effects) = 2
           /\ IsIoctl(last.effects[2], "IOCTL_VIDEO_SET_DISPLAY_BRIGHTNESS")
           /\ last.effects[2].input.ucACBrightness = 0
           /\ last.effects[2].input.ucDCBrightness = 0
           /\ last.env.fault # "IOCTL_VIDEO_SET_DISPLAY_BRIGHTNESS"
                 => /\ last.result = Ok(<<>>)
                    /\ panel.ac = 0 /\ panel.dc = 0

\* set(100) on a panel at 50 that reports no level: the panel goes to 0
C30_Witness ==
    /\ NoLevelsReported
    /\ last.percentage = <<100>>
    /\ last.env.panel.ac = 50
    /\ last.result = Ok(<<>>)
    /\ panel.ac = 0 /\ panel.dc = 0

=============================================================================
